---- MODULE Spec2Model ----
(***************************************************************************)
(* boring-ssr-stack: the glob based file copier (scripts/copy-files.js).   *)
(*                                                                         *)
(* A string is a sequence of one-character strings, so that the path and   *)
(* pattern functions are computed character by character as the code and   *)
(* node's posix `path` module compute them.  The platform is POSIX         *)
(* (path.sep = "/").                                                       *)
(***************************************************************************)
EXTENDS Integers, Sequences, FiniteSets, TLC

VARIABLES
    fs,            \* the filesystem: [dirs, files, others]
    denied,        \* paths the process has no permission on (EACCES)
    patterns,      \* const patterns   (line 40), resolved
    outputDir,     \* const outputDir  (line 39), resolved
    watchMode,     \* const watchMode  (line 30)
    proc,          \* "running" | "exited"
    exitCode,      \* the process's exit code, -1 while it runs
    exitReason,    \* why the process ended
    mainPc,        \* where main() stands: "initial" | "setup" | "watching" | "done"
    passes,        \* the processAllPatterns() calls in flight
    watchers,      \* the fs.watch subscriptions, one directory each
    debounceTimer, \* the Timeout `debounceTimer` refers to: "null" | "pending" | "fired"
    timers,        \* pending timeouts: ms left of each, oldest first
    last,          \* the pass that ended most recently
    hist,          \* observation counters (runs, changes, bursts, passes, ...)
    call,          \* arguments of a function applied on its own
    ret,           \* its result
    imported,      \* let imported    (env/index.js line 10)
    processEnv,    \* process.env: the variables that are set, with their values
    envWorld       \* the .env.<NODE_ENV> files, and what was seen of env.init()

vars == <<fs, denied, patterns, outputDir, watchMode, proc, exitCode, exitReason,
          mainPc, passes, watchers, debounceTimer, timers, last, hist, call, ret,
          imported, processEnv, envWorld>>

pkgVars == <<imported, processEnv, envWorld>>

progVars == <<fs, denied, patterns, outputDir, watchMode, proc, exitCode, exitReason,
              mainPc, passes, watchers, debounceTimer, timers, last, hist>>

(***************************************************************************)
(* Strings                                                                 *)
(***************************************************************************)
sep == "/"
Slash == <<"/">>
Dot == <<".">>
DotDot == <<".", ".">>
EmptyStr == <<>>

\* String.prototype.slice(0, n)
Slice0(s, n) == SubSeq(s, 1, n)

\* String.prototype.lastIndexOf(c): 0-based, -1 when absent
LastIndexOf(s, c) ==
    LET hits == {i \in 1..Len(s) : s[i] = c}
    IN  IF hits = {} THEN -1 ELSE (CHOOSE i \in hits : \A j \in hits : j <= i) - 1

\* s.split(path.sep): the pieces between separators, empty pieces kept
RECURSIVE SplitFrom(_, _, _, _, _)
SplitFrom(s, c, i, cur, acc) ==
    IF i > Len(s) THEN Append(acc, cur)
    ELSE IF s[i] = c THEN SplitFrom(s, c, i + 1, <<>>, Append(acc, cur))
    ELSE SplitFrom(s, c, i + 1, Append(cur, s[i]), acc)

Split(s, c) == SplitFrom(s, c, 1, <<>>, <<>>)

\* Array.prototype.join(c)
RECURSIVE JoinWith(_, _)
JoinWith(parts, c) ==
    IF parts = <<>> THEN <<>>
    ELSE IF Len(parts) = 1 THEN parts[1]
    ELSE parts[1] \o <<c>> \o JoinWith(Tail(parts), c)

\* the non-empty segments of a path
Segs(s) == SelectSeq(Split(s, "/"), LAMBDA x : x # <<>>)

IsAbsolute(p) == p # <<>> /\ p[1] = "/"

(***************************************************************************)
(* node's posix path module                                                *)
(***************************************************************************)
\* the process's working directory
cwd == <<"/", "w">>

\* normalizeString: "." and empty segments dropped, ".." pops a segment;
\* above the root it is dropped, above a relative start it is kept
RECURSIVE NormSegs(_, _, _)
NormSegs(segs, acc, allowAboveRoot) ==
    IF segs = <<>> THEN acc
    ELSE LET s == Head(segs)
             r == Tail(segs)
         IN  IF s = Dot THEN NormSegs(r, acc, allowAboveRoot)
             ELSE IF s = DotDot
                  THEN IF acc # <<>> /\ acc[Len(acc)] # DotDot
                       THEN NormSegs(r, SubSeq(acc, 1, Len(acc) - 1), allowAboveRoot)
                       ELSE IF allowAboveRoot
                            THEN NormSegs(r, Append(acc, s), allowAboveRoot)
                            ELSE NormSegs(r, acc, allowAboveRoot)
                  ELSE NormSegs(r, Append(acc, s), allowAboveRoot)

\* path.resolve(p)
Resolve(p) ==
    LET full == IF IsAbsolute(p) THEN p
                ELSE IF p = <<>> THEN cwd ELSE cwd \o Slash \o p
    IN  Slash \o JoinWith(NormSegs(Segs(full), <<>>, FALSE), "/")

\* path.normalize(p)
Normalize(p) ==
    IF p = <<>> THEN Dot
    ELSE LET abs   == IsAbsolute(p)
             trail == p[Len(p)] = "/"
             body  == JoinWith(NormSegs(Segs(p), <<>>, ~abs), "/")
         IN  IF body = <<>>
             THEN (IF abs THEN Slash ELSE IF trail THEN <<".", "/">> ELSE Dot)
             ELSE (IF abs THEN Slash ELSE <<>>) \o body \o (IF trail THEN Slash ELSE <<>>)

\* path.join(a, b)
Join(a, b) ==
    IF a = <<>> /\ b = <<>> THEN Dot
    ELSE IF a = <<>> THEN Normalize(b)
    ELSE IF b = <<>> THEN Normalize(a)
    ELSE Normalize(a \o Slash \o b)

\* path.dirname(p)
Dirname(p) ==
    IF p = <<>> THEN Dot
    ELSE LET hasRoot == p[1] = "/"
             \* positions after the first of a slash followed by a non-slash character
             ends == {i \in 2..Len(p) :
                        /\ p[i] = "/"
                        /\ \E j \in (i + 1)..Len(p) : p[j] # "/"}
         IN  IF ends = {} THEN (IF hasRoot THEN Slash ELSE Dot)
             ELSE LET e == CHOOSE i \in ends : \A j \in ends : j <= i
                  IN  IF hasRoot /\ e = 2 THEN <<"/", "/">> ELSE SubSeq(p, 1, e - 1)

\* path.basename(p)
Basename(p) ==
    LET nonSlash == {i \in 1..Len(p) : p[i] # "/"}
    IN  IF nonSlash = {} THEN <<>>
        ELSE LET e == CHOOSE i \in nonSlash : \A j \in nonSlash : j <= i
                 before == {i \in 1..e : p[i] = "/"}
                 b == IF before = {} THEN 0
                      ELSE CHOOSE i \in before : \A j \in before : j <= i
             IN  SubSeq(p, b + 1, e)

\* length of the longest common prefix of two segment lists
RECURSIVE CommonLen(_, _)
CommonLen(a, b) ==
    IF a = <<>> \/ b = <<>> \/ Head(a) # Head(b) THEN 0
    ELSE 1 + CommonLen(Tail(a), Tail(b))

\* path.relative(from, to)
Relative(from, to) ==
    LET f == Segs(Resolve(from))
        t == Segs(Resolve(to))
        n == CommonLen(f, t)
        ups == [i \in 1..(Len(f) - n) |-> DotDot]
    IN  JoinWith(ups \o SubSeq(t, n + 1, Len(t)), "/")

(***************************************************************************)
(* Patterns                                                                *)
(***************************************************************************)
\* normalizePath: filePath.split(path.sep).join('/')
normalizePath(filePath) == JoinWith(Split(filePath, sep), "/")

IsGlobChar(c) == c \in {"*", "?", "[", "]"}

\* hasGlobChars.test(s)
hasGlobChars(s) == \E i \in 1..Len(s) : IsGlobChar(s[i])

\* s.match(/[*?[\]]/): the 0-based index of the first glob character, -1 for
\* no match (null)
MatchIndex(s) ==
    LET hits == {i \in 1..Len(s) : IsGlobChar(s[i])}
    IN  IF hits = {} THEN -1 ELSE (CHOOSE i \in hits : \A j \in hits : i <= j) - 1

\* lines 64-65 cutting at the wildcard instead of at the last slash
findGlobBase_noCut(pattern) ==
    LET normalized == normalizePath(pattern)
        index == MatchIndex(normalized)
    IN  IF index = -1 \/ index = 0 THEN Dirname(pattern)
        ELSE Resolve(Slice0(normalized, index))

\* findGlobBase: `!match?.index` holds for no match and for index 0
findGlobBase(pattern) ==
    LET normalized == normalizePath(pattern)
        index == MatchIndex(normalized)
    IN  IF index = -1 \/ index = 0 THEN Dirname(pattern)
        ELSE LET base == Slice0(normalized, index)
                 lastSlash == LastIndexOf(base, "/")
             IN  Resolve(IF lastSlash >= 0 THEN Slice0(base, lastSlash) ELSE Dot)

\* one path segment against one pattern segment: `*` is any run of
\* characters, `?` any one character, every other character itself
\* (the patterns of this model hold no bracket expression and no brace)
RECURSIVE SegMatch(_, _, _, _)
SegMatch(f, p, i, j) ==
    IF j > Len(p) THEN i > Len(f)
    ELSE IF p[j] = "*"
         THEN SegMatch(f, p, i, j + 1) \/ (i <= Len(f) /\ SegMatch(f, p, i + 1, j))
    ELSE IF p[j] = "?" THEN i <= Len(f) /\ SegMatch(f, p, i + 1, j + 1)
    ELSE i <= Len(f) /\ f[i] = p[j] /\ SegMatch(f, p, i + 1, j + 1)

GlobStar == <<"*", "*">>

\* the segments of a path against the segments of a pattern; a `**` segment
\* stands for any number of segments
RECURSIVE MatchSegs(_, _, _, _, _)
MatchSegs(f, p, i, j, dot) ==
    IF j > Len(p) THEN i > Len(f)
    ELSE IF p[j] = GlobStar
         THEN \/ MatchSegs(f, p, i, j + 1, dot)
              \/ /\ i <= Len(f)
                 /\ f[i] \notin {Dot, DotDot}
                 /\ (dot \/ f[i][1] # ".")
                 /\ MatchSegs(f, p, i + 1, j, dot)
    ELSE /\ i <= Len(f)
         /\ (dot \/ f[i][1] # "." \/ p[j][1] = ".")
         /\ SegMatch(f[i], p[j], 1, 1)
         /\ MatchSegs(f, p, i + 1, j + 1, dot)

minimatchOpt(path, pattern, dot) ==
    /\ IsAbsolute(path) = IsAbsolute(pattern)
    /\ MatchSegs(Segs(path), Segs(pattern), 1, 1, dot)

\* minimatch without { dot: true }: a leading dot is matched only by a dot
minimatch_noDot(path, pattern) == minimatchOpt(path, pattern, FALSE)

\* minimatch(path, pattern, { dot: true })
minimatch(path, pattern) == minimatchOpt(path, pattern, TRUE)

(***************************************************************************)
(* The filesystem                                                          *)
(***************************************************************************)
Paths(f) == f.dirs \cup DOMAIN f.files \cup f.others

\* what stat / a Dirent says of a path: isDirectory(), isFile(), neither
Kind(f, p) ==
    IF p \in f.dirs THEN "dir"
    ELSE IF p \in DOMAIN f.files THEN "file"
    ELSE IF p \in f.others THEN "other"
    ELSE "none"

\* a set as a sequence, in an order that is fixed but carries no meaning
RECURSIVE SeqOf(_)
SeqOf(S) ==
    IF S = {} THEN <<>>
    ELSE LET x == CHOOSE y \in S : TRUE IN <<x>> \o SeqOf(S \ {x})

\* fs.promises.readdir(dir): the names of the entries of dir
readdir(f, dir) ==
    SeqOf({Basename(p) : p \in {q \in Paths(f) : q # dir /\ Dirname(q) = dir}})

\* readdir fails on a missing directory and on one that may not be read
readdirFails(f, dn, dir) == Kind(f, dir) # "dir" \/ dir \in dn

\* the directories from the root down to p
Ancestors(p) ==
    LET segs == Segs(p)
    IN  {Slash \o JoinWith(SubSeq(segs, 1, n), "/") : n \in 0..Len(segs)}

\* fs.promises.mkdir(dir, { recursive: true })
mkdirFails(f, dir) == \E a \in Ancestors(dir) : Kind(f, a) \in {"file", "other"}

mkdir(f, dir) == [f EXCEPT !.dirs = @ \cup Ancestors(dir)]

\* fs.promises.copyFile(src, dest)
copyFileFails(f, dn, src, dest) ==
    \/ Kind(f, src) # "file"
    \/ Kind(f, dest) \in {"dir", "other"}
    \/ Kind(f, Dirname(dest)) # "dir"
    \/ dest \in dn

\* copyFile opening an existing destination for appending
copyFile_append(f, src, dest) ==
    [f EXCEPT !.files = [p \in DOMAIN f.files \cup {dest} |->
                            IF p # dest THEN f.files[p]
                            ELSE IF dest \in DOMAIN f.files /\ dest # src
                            THEN f.files[dest] + f.files[src]
                            ELSE f.files[src]]]

copyFile(f, src, dest) ==
    [f EXCEPT !.files = [p \in DOMAIN f.files \cup {dest} |->
                            IF p = dest THEN f.files[src] ELSE f.files[p]]]

(***************************************************************************)
(* findFiles and processPattern                                            *)
(*                                                                         *)
(* A call returns [err, files, warned]: err is TRUE when it throws.        *)
(***************************************************************************)
Thrown == [err |-> TRUE, files |-> <<>>, warned |-> 0]
Found(files) == [err |-> FALSE, files |-> files, warned |-> 0]
Warned == [err |-> FALSE, files |-> <<>>, warned |-> 1]

RECURSIVE findFiles(_, _, _, _, _)
RECURSIVE findFilesLoop(_, _, _, _, _, _, _)

\* lines 81-92: the loop over the entries of dir
findFilesLoop(f, dn, dir, entries, pattern, baseDir, results) ==
    IF entries = <<>> THEN Found(results)
    ELSE LET fullPath == Join(dir, Head(entries))
             normalizedPath == normalizePath(fullPath)
             kind == Kind(f, fullPath)
         IN  IF kind = "dir"
             THEN LET subdirResults == findFiles(f, dn, fullPath, pattern, baseDir)
                  IN  IF subdirResults.err THEN Thrown
                      ELSE findFilesLoop(f, dn, dir, Tail(entries), pattern, baseDir,
                                         results \o subdirResults.files)
             ELSE IF kind = "file" /\ minimatch(normalizedPath, pattern)
             THEN findFilesLoop(f, dn, dir, Tail(entries), pattern, baseDir,
                                Append(results, [absolute |-> fullPath,
                                                 relative |-> Relative(baseDir, fullPath)]))
             ELSE findFilesLoop(f, dn, dir, Tail(entries), pattern, baseDir, results)

\* findFiles without the recursion into subdirectories
findFiles_flat(f, dn, dir, pattern, baseDir) ==
    IF readdirFails(f, dn, dir) THEN Thrown
    ELSE LET here == SelectSeq(readdir(f, dir),
                               LAMBDA n : Kind(f, Join(dir, n)) # "dir")
         IN  findFilesLoop(f, dn, dir, here, pattern, baseDir, <<>>)

\* findFiles keeping the entries that are not regular files
findFiles_anyEntry(f, dn, dir, pattern, baseDir) ==
    IF readdirFails(f, dn, dir) THEN Thrown
    ELSE LET r == findFilesLoop(f, dn, dir, readdir(f, dir), pattern, baseDir, <<>>)
             extra == SeqOf({[absolute |-> q, relative |-> Relative(baseDir, q)] :
                             q \in {x \in f.others : Dirname(x) = dir
                                                     /\ minimatch(x, pattern)}})
         IN  IF r.err THEN r ELSE Found(r.files \o extra)

\* findFiles(dir, pattern, baseDir)
findFiles(f, dn, dir, pattern, baseDir) ==
    IF readdirFails(f, dn, dir) THEN Thrown
    ELSE findFilesLoop(f, dn, dir, readdir(f, dir), pattern, baseDir, <<>>)

\* processPattern treating a literal path as a glob over its directory
processPattern_literalNested(f, dn, pattern) ==
    IF ~hasGlobChars(pattern)
    THEN IF Kind(f, pattern) = "file"
         THEN Found(<<[absolute |-> pattern, relative |-> Relative(cwd, pattern)]>>)
         ELSE Warned
    ELSE LET baseDir == findGlobBase(pattern)
         IN  IF Kind(f, baseDir) # "dir" THEN Warned
             ELSE findFiles(f, dn, baseDir, normalizePath(pattern), baseDir)

\* processPattern throwing where the code warns
processPattern_strict(f, dn, pattern) ==
    IF ~hasGlobChars(pattern)
    THEN IF Kind(f, pattern) = "file"
         THEN Found(<<[absolute |-> pattern, relative |-> Basename(pattern)]>>)
         ELSE Thrown
    ELSE LET baseDir == findGlobBase(pattern)
         IN  IF Kind(f, baseDir) # "dir" THEN Thrown
             ELSE findFiles(f, dn, baseDir, normalizePath(pattern), baseDir)

\* processPattern(pattern); stat(...).catch(() => null) never throws
processPattern(f, dn, pattern) ==
    LET isGlob == hasGlobChars(pattern)
    IN  IF ~isGlob
        THEN IF Kind(f, pattern) = "file"
             THEN Found(<<[absolute |-> pattern, relative |-> Basename(pattern)]>>)
             ELSE Warned
        ELSE LET baseDir == findGlobBase(pattern)
                 normalizedPattern == normalizePath(pattern)
             IN  IF Kind(f, baseDir) # "dir" THEN Warned
                 ELSE findFiles(f, dn, baseDir, normalizedPattern, baseDir)

(***************************************************************************)
(* Bounds and inputs                                                       *)
(***************************************************************************)
MaxPatterns == 2      \* patterns on a command line
MaxChanges == 2       \* changes made to the files from outside while watching
MaxPasses == 2        \* watch-triggered passes of one process
MaxRuns == 2          \* runs of the tool with the same arguments
TicksPerQuiet == 1    \* clock steps in one quiet period

\* setTimeout(..., 100)
DebounceMs == 100

TickMs == DebounceMs \div TicksPerQuiet

\* the tree the tool is run on
InitFS ==
    [dirs   |-> {<<"/">>, <<"/", "w">>, <<"/", "s">>, <<"/", "s", "/", "d">>},
     files  |-> (<<"/", "a">> :> 1) @@ (<<"/", "w", "/", "a">> :> 2)
                @@ (<<"/", "s", "/", "a">> :> 3) @@ (<<"/", "s", "/", ".", "e">> :> 4)
                @@ (<<"/", "s", "/", "d", "/", "a">> :> 5),
     others |-> {<<"/", "s", "/", "p">>}]

\* the resolved pattern arguments the model draws from
PatternChoices ==
    { <<"/", "s", "/", "*">>,                 \* /s/*
      <<"/", "s", "/", "*", "*", "/", "a">>,  \* /s/**/a
      <<"/", "s", "/", "d", "/", "?">>,       \* /s/d/?
      <<"/", "m", "/", "*">>,                 \* /m/*      no such directory
      <<"/", "*", "*", "/", "a">>,            \* /**/a     wildcard below the root
      <<"/", "s", "/", "a">>,                 \* /s/a      a regular file
      <<"/", "s", "/", "d">>,                 \* /s/d      a directory
      <<"/", "m">> }                          \* /m        no such path

PatternLists ==
    UNION {[1..n -> PatternChoices] : n \in 1..MaxPatterns}

\* the pattern arguments of the watch sessions
WatchPatternLists ==
    { << <<"/", "s", "/", "a">>, <<"/", "s", "/", "*">> >> } \cup
    { << <<"/", "s", "/", "*", "*", "/", "a">> >>,
      << <<"/", "s", "/", "d", "/", "?">> >>,
      << <<"/", "s", "/", "*">>, <<"/", "s", "/", "d", "/", "?">> >>,
      << <<"/", "s", "/", "*">>, <<"/", "s", "/", "*", "*", "/", "a">> >>,
      << <<"/", "s", "/", "a">>, <<"/", "s", "/", "d", "/", "?">> >>,
      << <<"/", "s", "/", "a">> >>,
      << <<"/", "m", "/", "*">>, <<"/", "s", "/", "*">> >>,
      << <<"/", "s", "/", "a">>, <<"/", "m", "/", "*">> >> }

OutputDirs == {<<"/", "o">>, <<"/", "s", "/", "o">>}

\* the permission failures a run may meet
DenyChoices == {{}, {<<"/", "o", "/", "a">>}, {<<"/", "o", "/", "d", "/", "a">>}}

\* what the outside does to the tree while the tool watches
Changes ==
    { [op |-> "write",  path |-> <<"/", "s", "/", "a">>],
      [op |-> "remove", path |-> <<"/", "s", "/", "d", "/", "a">>],
      [op |-> "chmod",  path |-> <<"/", "s", "/", "d">>] }

\* p is dir or lies below it
Under(p, dir) ==
    LET ps == Segs(p)
        ds == Segs(dir)
    IN  Len(ds) <= Len(ps) /\ SubSeq(ps, 1, Len(ds)) = ds

RemoveAt(seq, k) == SubSeq(seq, 1, k - 1) \o SubSeq(seq, k + 1, Len(seq))

Min(a, b) == IF a < b THEN a ELSE b

(***************************************************************************)
(* The process                                                             *)
(***************************************************************************)
NoPass == [trigger |-> "none", outcome |-> "none", allFiles |-> <<>>,
           ncopied |-> 0, warned |-> 0, per |-> <<>>]

\* a pass started by a change leaving out the first pattern
NewPass_skipFirst(trigger) ==
    [trigger |-> trigger, pc |-> "resolve",
     i |-> IF trigger = "watch" /\ Len(patterns) > 1 THEN 2 ELSE 1,
     allFiles |-> <<>>, warned |-> 0, per |-> <<>>]

\* processAllPatterns() up to its first await; `per` notes, for each pattern
\* done, how many files it matched and whether it drew a warning
NewPass(trigger) ==
    [trigger |-> trigger, pc |-> "resolve", i |-> 1, allFiles |-> <<>>, warned |-> 0,
     per |-> <<>>]

Ended(p, outcome, ncopied) ==
    [trigger |-> p.trigger, outcome |-> outcome, allFiles |-> p.allFiles,
     ncopied |-> ncopied, warned |-> p.warned, per |-> p.per]

\* what an observer of the process keeps: the run, the outside changes, the
\* bursts of events and whether the latest one had several, the watch passes
\* started and how many had started when one last failed, the time since
\* the last event, whether a pass started too early, whether watch mode got
\* active, the tree the previous run left, and the lines setupWatchers
\* logged
NoHist == [run |-> 1, changes |-> 0, bursts |-> 0, several |-> FALSE, started |-> 0,
           failedAt |-> 0, age |-> DebounceMs, early |-> FALSE, active |-> FALSE,
           fs1 |-> <<>>, log |-> <<>>]

\* the env package not loaded
EnvAtRest ==
    /\ imported = FALSE
    /\ processEnv = <<>>
    /\ envWorld = [files |-> <<>>, inits |-> 0, reads |-> 0, edits |-> 0,
                   stale |-> FALSE, recalled |-> FALSE]

\* main() has called processAllPatterns (line 227)
Started ==
    /\ fs = InitFS
    /\ proc = "running"
    /\ exitCode = -1
    /\ exitReason = "none"
    /\ mainPc = "initial"
    /\ passes = <<NewPass("initial")>>
    /\ watchers = <<>>
    /\ debounceTimer = "null"
    /\ timers = <<>>
    /\ last = NoPass
    /\ hist = NoHist
    /\ call = <<>>
    /\ ret = <<>>
    /\ EnvAtRest

\* a run without --watch
Init ==
    /\ Started
    /\ denied \in DenyChoices
    /\ patterns \in PatternLists
    /\ outputDir \in OutputDirs
    /\ watchMode = FALSE

\* a run with --watch
InitWatch ==
    /\ Started
    /\ denied = {}
    /\ patterns \in WatchPatternLists
    /\ outputDir \in OutputDirs
    /\ watchMode = TRUE

\* process.exit(code), or the event loop running empty
ExitProcess(code, reason) ==
    /\ proc' = "exited"
    /\ exitCode' = code
    /\ exitReason' = reason
    /\ mainPc' = "done"
    /\ passes' = <<>>
    /\ watchers' = <<>>
    /\ debounceTimer' = "null"
    /\ timers' = <<>>

\* line 156
noFilesMatched_never(allFiles) == FALSE

noFilesMatched(allFiles) == Len(allFiles) = 0

\* a pass that throws: main().catch (lines 234-237) ends the process, the
\* try/catch of the timer callback (lines 203-207) logs
onPassError_exit(trigger) == "exit"

onPassError(trigger) == IF trigger = "watch" THEN "log" ELSE "exit"

\* handleFileChange without clearTimeout
handleFileChange_noClear(dt, ts) ==
    [debounceTimer |-> "pending", timers |-> Append(ts, DebounceMs)]

\* handleFileChange (lines 197-209): the timer the variable refers to is the
\* youngest one; clearTimeout of a timer that has fired does nothing
handleFileChange(dt, ts) ==
    LET cleared == IF dt = "pending" THEN SubSeq(ts, 1, Len(ts) - 1) ELSE ts
    IN  [debounceTimer |-> "pending", timers |-> Append(cleared, DebounceMs)]

\* the observer's count of bursts: an event that comes a full quiet period
\* after the one before it opens a new burst
Observed(h) ==
    [h EXCEPT !.bursts = IF h.age >= DebounceMs THEN @ + 1 ELSE @,
              !.several = h.age < DebounceMs,
              !.age = 0]

\* libuv runs the timers that are due before it polls for further events
DueTimer == \E i \in 1..Len(timers) : timers[i] = 0

\* the watchers' callback runs when one of the touched paths is watched
Deliver(touched, h) ==
    IF \E i \in 1..Len(watchers) : \E t \in touched : Under(t, watchers[i])
    THEN LET tm == handleFileChange(debounceTimer, timers)
         IN  /\ debounceTimer' = tm.debounceTimer
             /\ timers' = tm.timers
             /\ hist' = Observed(h)
    ELSE /\ UNCHANGED <<debounceTimer, timers>>
         /\ hist' = h

\* the pass passes[k] throws
PassThrows(k, ncopied, touched) ==
    LET p == passes[k]
    IN  /\ last' = Ended(p, "error", ncopied)
        /\ IF onPassError(p.trigger) = "exit"
           THEN ExitProcess(1, "failed") /\ UNCHANGED hist
           ELSE /\ passes' = RemoveAt(passes, k)
                /\ Deliver(touched, [hist EXCEPT !.failedAt = hist.started])
                /\ UNCHANGED <<proc, exitCode, exitReason, mainPc, watchers>>

\* the new matches put in front of the ones already found
pushAll_unshift(allFiles, files) == files \o allFiles

\* allFiles.push(...files) (line 153)
pushAll(allFiles, files) == allFiles \o files

\* lines 151-159: one turn of the loop over the patterns, and after the last
\* one the test for no match at all
ProcessPatternStep(k) ==
    /\ proc = "running" /\ ~DueTimer
    /\ passes[k].pc = "resolve"
    /\ \E files \in {processPattern(fs, denied, patterns[passes[k].i])} :
       \E q \in {[passes[k] EXCEPT !.allFiles = pushAll(@, files.files),
                                   !.warned = @ + files.warned,
                                   !.per = Append(@, [n |-> Len(files.files),
                                                      w |-> files.warned])]} :
           IF files.err
           THEN PassThrows(k, 0, {})
           ELSE IF q.i < Len(patterns)
           THEN /\ passes' = [passes EXCEPT ![k] = [q EXCEPT !.i = @ + 1]]
                /\ UNCHANGED <<proc, exitCode, exitReason, mainPc, watchers,
                               debounceTimer, timers, last, hist>>
           ELSE IF noFilesMatched(q.allFiles)
           THEN /\ last' = Ended(q, "nomatch", 0)
                /\ ExitProcess(1, "nomatch")
                /\ UNCHANGED hist
           ELSE /\ passes' = [passes EXCEPT ![k] = [q EXCEPT !.pc = "copy", !.i = 1]]
                /\ UNCHANGED <<proc, exitCode, exitReason, mainPc, watchers,
                               debounceTimer, timers, last, hist>>
    /\ UNCHANGED <<fs, denied, patterns, outputDir, watchMode, call, ret, pkgVars>>

\* the loop body going on after a copy that failed
copyOne_swallow(f, dn, file, output) ==
    LET destPath == Join(output, file.relative)
        destDir == Dirname(destPath)
    IN  IF mkdirFails(f, destDir) \/ copyFileFails(mkdir(f, destDir), dn, file.absolute, destPath)
        THEN [fs |-> f, failed |-> FALSE, touched |-> {}]
        ELSE [fs |-> copyFile(mkdir(f, destDir), file.absolute, destPath),
              failed |-> FALSE,
              touched |-> {destPath}]

\* lines 104-108, the body of the loop of copyFiles on one file: the tree it
\* leaves, whether it throws, and the paths it created or wrote
copyOne(f, dn, file, output) ==
    LET destPath == Join(output, file.relative)
        destDir == Dirname(destPath)
    IN  IF mkdirFails(f, destDir)
        THEN [fs |-> f, failed |-> TRUE, touched |-> {}]
        ELSE LET f1 == mkdir(f, destDir)
             IN  IF copyFileFails(f1, dn, file.absolute, destPath)
                 THEN [fs |-> f1, failed |-> TRUE, touched |-> f1.dirs \ f.dirs]
                 ELSE [fs |-> copyFile(f1, file.absolute, destPath),
                       failed |-> FALSE,
                       touched |-> (f1.dirs \ f.dirs)
                                   \cup (IF file.absolute = destPath THEN {}
                                         ELSE {destPath})]

\* lines 103-109: one turn of the loop of copyFiles, and after the last one
\* the end of the pass (lines 163-166) and of main (lines 229-231)
CopyStep(k) ==
    /\ proc = "running" /\ ~DueTimer
    /\ passes[k].pc = "copy" /\ passes[k].i <= Len(passes[k].allFiles)
    /\ \E p \in {passes[k]} :
       \E r \in {copyOne(fs, denied, p.allFiles[p.i], outputDir)} :
           /\ fs' = r.fs
           /\ IF r.failed
              THEN PassThrows(k, p.i - 1, r.touched)
              ELSE IF p.i < Len(p.allFiles)
              THEN /\ passes' = [passes EXCEPT ![k].i = @ + 1]
                   /\ Deliver(r.touched, hist)
                   /\ UNCHANGED <<proc, exitCode, exitReason, mainPc, watchers, last>>
              ELSE /\ last' = Ended(p, "ok", p.i)
                   /\ IF p.trigger = "initial" /\ ~watchMode
                      THEN ExitProcess(0, "done") /\ UNCHANGED hist
                      ELSE /\ passes' = RemoveAt(passes, k)
                           /\ mainPc' = IF p.trigger = "initial" THEN "setup" ELSE mainPc
                           /\ Deliver(r.touched, hist)
                           /\ UNCHANGED <<proc, exitCode, exitReason, watchers>>
    /\ UNCHANGED <<denied, patterns, outputDir, watchMode, call, ret, pkgVars>>

\* lines 179-187: the base directories of the glob patterns
\* an array taking every value pushed
SetAdd_push(seq, x) == Append(seq, x)

\* Set.prototype.add: one entry per value, in the order of insertion
SetAdd(seq, x) == IF \E i \in 1..Len(seq) : seq[i] = x THEN seq ELSE Append(seq, x)

RECURSIVE BaseDirs_literalsToo(_, _)
RECURSIVE BaseDirs(_, _)
\* the loop taking the directory of a literal pattern as well
BaseDirs_literalsToo(i, acc) ==
    IF i > Len(patterns) THEN acc
    ELSE BaseDirs(i + 1, IF hasGlobChars(patterns[i])
                         THEN SetAdd(acc, findGlobBase(patterns[i]))
                         ELSE SetAdd(acc, Dirname(patterns[i])))

\* lines 179-187, from the i-th pattern on
BaseDirs(i, acc) ==
    IF i > Len(patterns) THEN acc
    ELSE BaseDirs(i + 1, IF hasGlobChars(patterns[i])
                         THEN SetAdd(acc, findGlobBase(patterns[i]))
                         ELSE acc)

watchedDirs == BaseDirs(1, <<>>)

\* a line of the log of setupWatchers
LogLine(line, dir) == [line |-> line, dir |-> dir]

RECURSIVE watchEach_stopAtMissing(_, _, _)
RECURSIVE watchEach(_, _, _)
\* the loop ending at the first directory that is not there
watchEach_stopAtMissing(f, dirs, i) ==
    IF i > Len(dirs) \/ Kind(f, dirs[i]) # "dir" THEN [watched |-> <<>>, log |-> <<>>]
    ELSE LET rest == watchEach(f, dirs, i + 1)
         IN  [watched |-> <<dirs[i]>> \o rest.watched,
              log |-> <<LogLine("Watching", dirs[i])>> \o rest.log]

\* lines 212-218, from the i-th directory on: the watches registered and the
\* lines logged
watchEach(f, dirs, i) ==
    IF i > Len(dirs) THEN [watched |-> <<>>, log |-> <<>>]
    ELSE LET rest == watchEach(f, dirs, i + 1)
         IN  IF Kind(f, dirs[i]) = "dir"
             THEN [watched |-> <<dirs[i]>> \o rest.watched,
                   log |-> <<LogLine("Watching", dirs[i])>> \o rest.log]
             ELSE rest

\* setupWatchers (lines 172-221); a process with no watcher, no timer and no
\* pass has nothing left to wait for and ends with code 0
SetupWatchers ==
    /\ proc = "running" /\ mainPc = "setup"
    /\ \E w \in {watchEach(fs, watchedDirs, 1)} :
          IF watchedDirs = <<>>
          THEN /\ ExitProcess(0, "nowatch")
               /\ hist' = [hist EXCEPT !.log = <<LogLine("No glob patterns to watch", <<>>)>>]
          ELSE IF w.watched = <<>>
          THEN /\ ExitProcess(0, "idle")
               /\ hist' = [hist EXCEPT !.log = Append(w.log, LogLine("Watch mode active", <<>>))]
          ELSE /\ watchers' = w.watched
               /\ mainPc' = "watching"
               /\ hist' = [hist EXCEPT !.active = TRUE,
                              !.log = Append(w.log, LogLine("Watch mode active", <<>>))]
               /\ UNCHANGED <<proc, exitCode, exitReason, passes, debounceTimer, timers>>
    /\ UNCHANGED <<fs, denied, patterns, outputDir, watchMode, last, call, ret, pkgVars>>

\* the tree after a change made from outside
Changed(f, c) ==
    IF c.op = "write"
    THEN [f EXCEPT !.files = [p \in DOMAIN f.files \cup {c.path} |->
                                 IF p = c.path THEN 9 ELSE f.files[p]]]
    ELSE IF c.op = "remove"
    THEN [f EXCEPT !.files = [p \in DOMAIN f.files \ {c.path} |-> f.files[p]]]
    ELSE f

\* a change made from outside while the tool watches: a file written, a
\* file removed, the read permission of a directory taken away
FsChange(c) ==
    /\ proc = "running" /\ mainPc = "watching" /\ ~DueTimer
    /\ hist.changes < MaxChanges
    /\ CASE c.op = "write"  -> Kind(fs, Dirname(c.path)) = "dir"
                               /\ Kind(fs, c.path) \in {"file", "none"}
         [] c.op = "remove" -> Kind(fs, c.path) = "file"
         [] c.op = "chmod"  -> Kind(fs, c.path) = "dir" /\ c.path \notin denied
    /\ fs' = Changed(fs, c)
    /\ denied' = IF c.op = "chmod" THEN denied \cup {c.path} ELSE denied
    /\ Deliver({c.path}, [hist EXCEPT !.changes = @ + 1])
    /\ UNCHANGED <<patterns, outputDir, watchMode, proc, exitCode, exitReason,
                   mainPc, passes, watchers, last, call, ret, pkgVars>>

\* time passes, up to the next timer that falls due
Tick ==
    /\ proc = "running" /\ timers # <<>> /\ ~DueTimer
    /\ LET soonest == CHOOSE t \in {timers[i] : i \in 1..Len(timers)} :
                          \A i \in 1..Len(timers) : t <= timers[i]
           dt == Min(TickMs, soonest)
       IN  /\ timers' = [i \in 1..Len(timers) |-> timers[i] - dt]
           /\ hist' = [hist EXCEPT !.age = Min(@ + dt, DebounceMs)]
    /\ UNCHANGED <<fs, denied, patterns, outputDir, watchMode, proc, exitCode,
                   exitReason, mainPc, passes, watchers, debounceTimer, last,
                   call, ret, pkgVars>>

\* a callback that returns at once while a pass is in flight
startPass_unlessBusy(ps) == IF ps # <<>> THEN ps ELSE Append(ps, NewPass("watch"))

\* the callback of the timeout (lines 202-208) calls processAllPatterns,
\* whatever else is going on
startPass(ps) == Append(ps, NewPass("watch"))

\* a due timeout runs its callback (lines 202-208): a pass starts
TimerFire ==
    /\ proc = "running" /\ DueTimer
    /\ hist.started < MaxPasses
    /\ LET i == CHOOSE j \in 1..Len(timers) :
                    timers[j] = 0 /\ \A l \in 1..(j - 1) : timers[l] # 0
       IN  /\ timers' = RemoveAt(timers, i)
           /\ debounceTimer' = IF debounceTimer = "pending" /\ i = Len(timers)
                               THEN "fired" ELSE debounceTimer
    /\ passes' = startPass(passes)
    /\ hist' = [hist EXCEPT !.started = @ + 1,
                            !.early = @ \/ hist.age < DebounceMs]
    /\ UNCHANGED <<fs, denied, patterns, outputDir, watchMode, proc, exitCode,
                   exitReason, mainPc, watchers, last, call, ret, pkgVars>>

\* Ctrl+C
Interrupt ==
    /\ proc = "running" /\ mainPc = "watching"
    /\ ExitProcess(130, "interrupt")
    /\ UNCHANGED <<fs, denied, patterns, outputDir, watchMode, last, hist, call, ret, pkgVars>>

\* the tool is run again with the same arguments on the tree as it is
Rerun ==
    /\ proc = "exited" /\ exitReason # "interrupt"
    /\ hist.run < MaxRuns
    /\ hist.changes = 0
    /\ proc' = "running"
    /\ exitCode' = -1
    /\ exitReason' = "none"
    /\ mainPc' = "initial"
    /\ passes' = <<NewPass("initial")>>
    /\ last' = NoPass
    /\ hist' = [NoHist EXCEPT !.run = hist.run + 1, !.fs1 = fs]
    /\ UNCHANGED <<fs, denied, patterns, outputDir, watchMode, watchers,
                   debounceTimer, timers, call, ret, pkgVars>>

Resolving == \E k \in 1..Len(passes) : ProcessPatternStep(k)

Copying == \E k \in 1..Len(passes) : CopyStep(k)

Outside == \E c \in Changes : FsChange(c)

\* one run of the tool without --watch, and the same run again
Next ==
    \/ Resolving
    \/ Copying
    \/ Rerun

Spec == Init /\ [][Next]_vars

\* the runs without --watch, also into an output directory whose parent
\* directory is not there
DeepOutputDirs == OutputDirs \cup {<<"/", "n", "/", "o">>}

InitDeep ==
    /\ Started
    /\ denied \in DenyChoices
    /\ patterns \in PatternLists
    /\ outputDir \in DeepOutputDirs
    /\ watchMode = FALSE

SpecDeep == InitDeep /\ [][Next]_vars

\* a watch session
NextWatch ==
    \/ Resolving
    \/ Copying
    \/ SetupWatchers
    \/ Outside
    \/ Tick
    \/ TimerFire
    \/ Interrupt

SpecWatch == InitWatch /\ [][NextWatch]_vars

(***************************************************************************)
(* The command line (lines 22-40)                                          *)
(***************************************************************************)
MaxArgs == 3          \* arguments on the command line

FlagH == <<"-", "h">>
FlagHelp == <<"-", "-", "h", "e", "l", "p">>
FlagW == <<"-", "w">>
FlagWatch == <<"-", "-", "w", "a", "t", "c", "h">>

ArgChoices ==
    { FlagH, FlagHelp, FlagW, FlagWatch,
      <<"/", "s", "/", "*">>, <<"a">>, <<"/", "o">>, <<"o">> }

ArgLists == UNION {[1..n -> ArgChoices] : n \in 0..MaxArgs}

\* Array.prototype.includes
Includes(seq, x) == \E i \in 1..Len(seq) : seq[i] = x

\* args.filter((arg) => arg !== '-w' && arg !== '--watch')
IsNotWatchFlag(arg) == arg # FlagW /\ arg # FlagWatch

\* a command line that ended the process with the usage text
Usage(code) == [exit |-> code, watchMode |-> FALSE, outputDir |-> <<>>, patterns |-> <<>>]

\* the command line read with the count taken before the watch flag is removed
parseArgs_countFirst(argv) ==
    IF Len(argv) = 0 \/ Includes(argv, FlagH) \/ Includes(argv, FlagHelp)
    THEN Usage(IF Includes(argv, FlagH) \/ Includes(argv, FlagHelp) THEN 0 ELSE 1)
    ELSE IF Len(argv) < 2 THEN Usage(1)
    ELSE LET args == SelectSeq(argv, IsNotWatchFlag)
         IN  [exit |-> -1,
              watchMode |-> Includes(argv, FlagW) \/ Includes(argv, FlagWatch),
              outputDir |-> IF args = <<>> THEN cwd ELSE Resolve(args[Len(args)]),
              patterns |-> [i \in 1..(Len(args) - 1) |-> Resolve(args[i])]]

\* lines 22-40: exit -1 stands for going on to main()
parseArgs(argv) ==
    IF Len(argv) = 0 \/ Includes(argv, FlagH) \/ Includes(argv, FlagHelp)
    THEN Usage(IF Includes(argv, FlagH) \/ Includes(argv, FlagHelp) THEN 0 ELSE 1)
    ELSE LET args == SelectSeq(argv, IsNotWatchFlag)
         IN  IF Len(args) < 2 THEN Usage(1)
             ELSE [exit |-> -1,
                   watchMode |-> Includes(argv, FlagW) \/ Includes(argv, FlagWatch),
                   outputDir |-> Resolve(args[Len(args)]),
                   patterns |-> [i \in 1..(Len(args) - 1) |-> Resolve(args[i])]]

\* the process as node starts it, the module not yet evaluated
InitArgs ==
    /\ fs = InitFS
    /\ denied \in DenyChoices
    /\ patterns = <<>>
    /\ outputDir = <<>>
    /\ watchMode = FALSE
    /\ proc = "running"
    /\ exitCode = -1
    /\ exitReason = "none"
    /\ mainPc = "args"
    /\ passes = <<>>
    /\ watchers = <<>>
    /\ debounceTimer = "null"
    /\ timers = <<>>
    /\ last = NoPass
    /\ hist = NoHist
    /\ call \in {[fn |-> "node", argv |-> a] : a \in ArgLists}
    /\ ret = <<>>
    /\ EnvAtRest

\* the top level of the module up to the call of main() (line 234)
ParseArgs ==
    /\ proc = "running" /\ mainPc = "args"
    /\ \E r \in {parseArgs(call.argv)} :
          IF r.exit # -1
          THEN /\ ExitProcess(r.exit, "usage")
               /\ UNCHANGED <<patterns, outputDir, watchMode>>
          ELSE /\ patterns' = r.patterns
               /\ outputDir' = r.outputDir
               /\ watchMode' = r.watchMode
               /\ mainPc' = "initial"
               /\ passes' = <<NewPass("initial")>>
               /\ UNCHANGED <<proc, exitCode, exitReason, watchers, debounceTimer, timers>>
    /\ UNCHANGED <<fs, denied, last, hist, call, ret, pkgVars>>

\* the tool started from a command line
NextArgs ==
    \/ ParseArgs
    \/ Resolving
    \/ Copying
    \/ SetupWatchers
    \/ Interrupt

SpecArgs == InitArgs /\ [][NextArgs]_vars

(***************************************************************************)
(* findGlobBase and findFiles applied on their own                         *)
(***************************************************************************)
MaxGlobLen == 4       \* characters in a pattern handed to findGlobBase

GlobAlphabet == {"/", "a", ".", "*", "?"}

GlobInputs == UNION {[1..n -> GlobAlphabet] : n \in 1..MaxGlobLen}

\* a call that has not returned
NoResult == [done |-> FALSE, val |-> <<>>]

\* no process: the program's variables at rest
NoProcess ==
    /\ patterns = <<>>
    /\ outputDir = <<>>
    /\ watchMode = FALSE
    /\ proc = "exited"
    /\ exitCode = -1
    /\ exitReason = "none"
    /\ mainPc = "done"
    /\ passes = <<>>
    /\ watchers = <<>>
    /\ debounceTimer = "null"
    /\ timers = <<>>
    /\ last = NoPass
    /\ hist = NoHist

InitGlob ==
    /\ NoProcess
    /\ fs = InitFS
    /\ denied = {}
    /\ call \in {[fn |-> "findGlobBase", pattern |-> p] : p \in GlobInputs}
    /\ ret = NoResult
    /\ EnvAtRest

ApplyFindGlobBase ==
    /\ call.fn = "findGlobBase" /\ ~ret.done
    /\ ret' = [done |-> TRUE, val |-> findGlobBase(call.pattern)]
    /\ UNCHANGED <<progVars, pkgVars, call>>

NextGlob == ApplyFindGlobBase

SpecGlob == InitGlob /\ [][NextGlob]_vars

\* a deeper tree for the walk: a directory three levels down and a hidden one
FindFS ==
    [InitFS EXCEPT
       !.dirs = @ \cup {<<"/", "s", "/", "d", "/", "e">>, <<"/", "s", "/", ".", "h">>},
       !.files = @ @@ (<<"/", "s", "/", "d", "/", "e", "/", "a">> :> 6)
                   @@ (<<"/", "s", "/", ".", "h", "/", "a">> :> 7)
                   @@ (<<"/", "s", "/", "d", "/", ".", "e">> :> 8)]

FindDirs == {<<"/">>, <<"/", "s">>, <<"/", "s", "/", "d">>, <<"/", "w">>, <<"/", "m">>}

FindPatterns ==
    { <<"/", "s", "/", "*">>,
      <<"/", "s", "/", "*", "*", "/", "a">>,
      <<"/", "s", "/", "*", "*">>,
      <<"/", "s", "/", "d", "/", "?">>,
      <<"/", "s", "/", "*", "/", "*">>,
      <<"/", "*", "*", "/", "a">>,
      <<"/", "s", "/", "*", "*", "/", ".", "*">> }

\* directories that may not be read
FindDenied == SUBSET {<<"/", "s">>, <<"/", "s", "/", "d">>, <<"/", "s", "/", "d", "/", "e">>}

InitFind ==
    /\ NoProcess
    /\ fs = FindFS
    /\ denied \in FindDenied
    /\ call \in {[fn |-> "findFiles", dir |-> d, pattern |-> p, baseDir |-> b] :
                    d \in FindDirs, p \in FindPatterns, b \in {<<"/">>, <<"/", "s">>}}
    /\ ret = NoResult
    /\ EnvAtRest

ApplyFindFiles ==
    /\ call.fn = "findFiles" /\ ~ret.done
    /\ ret' = [done |-> TRUE,
               val |-> findFiles(fs, denied, call.dir, call.pattern, call.baseDir)]
    /\ UNCHANGED <<progVars, pkgVars, call>>

NextFind == ApplyFindFiles

SpecFind == InitFind /\ [][NextFind]_vars

(***************************************************************************)
(* The env package (packages/shared/env/index.js)                          *)
(***************************************************************************)
MaxInits == 2         \* calls of env.init()
MaxEnvEdits == 2      \* changes of process.env or of a .env file from outside

\* process.env.NODE_ENV || 'development'
nodeEnvOf(penv) ==
    IF "NODE_ENV" \in DOMAIN penv /\ penv["NODE_ENV"] # ""
    THEN penv["NODE_ENV"] ELSE "development"

\* process.env[key] = value
SetVar(penv, key, value) ==
    [k \in DOMAIN penv \cup {key} |-> IF k = key THEN value ELSE penv[k]]

\* dotenv.config({ path, override: true }) on the file .env.<name>; a file
\* that is missing is no error
dotenvConfig(penv, files, name) ==
    IF name \notin DOMAIN files THEN penv
    ELSE [k \in DOMAIN penv \cup DOMAIN files[name] |->
             IF k \in DOMAIN files[name] THEN files[name][k] ELSE penv[k]]

\* init() without the guard on `imported`
init_always(imp, penv, files) ==
    [imported |-> TRUE, env |-> dotenvConfig(penv, files, nodeEnvOf(penv)), read |-> 1]

\* init() (lines 13-24): the flag and the environment it leaves, and the
\* number of files it read
init(imp, penv, files) ==
    IF imp THEN [imported |-> imp, env |-> penv, read |-> 0]
    ELSE [imported |-> TRUE, env |-> dotenvConfig(penv, files, nodeEnvOf(penv)), read |-> 1]

EnvNames == {"NODE_ENV", "API_HOST"}

EnvValues == {"", "test", "shell"}

\* the environment the process starts with
EnvChoices ==
    { [k \in {"NODE_ENV"} |-> "test"],
      [k \in {"NODE_ENV"} |-> ""],
      [k \in {"API_HOST"} |-> "shell"],
      [k \in {"NODE_ENV", "API_HOST"} |-> IF k = "NODE_ENV" THEN "development" ELSE "shell"] }

\* the .env files on disk
EnvFileChoices ==
    { [n \in {"development", "test"} |->
          [k \in {"API_HOST"} |-> IF n = "test" THEN "http://test" ELSE "http://dev"]],
      [n \in {"development"} |->
          [k \in {"API_HOST", "NODE_ENV"} |-> IF k = "API_HOST" THEN "http://dev" ELSE "test"]] }

InitEnv ==
    /\ NoProcess
    /\ fs = InitFS
    /\ denied = {}
    /\ call = <<>>
    /\ ret = NoResult
    /\ imported = FALSE
    /\ processEnv \in EnvChoices
    /\ \E f \in EnvFileChoices :
          envWorld = [files |-> f, inits |-> 0, reads |-> 0, edits |-> 0,
                      stale |-> FALSE, recalled |-> FALSE]

\* env.init() is called
CallInit ==
    /\ envWorld.inits < MaxInits
    /\ \E r \in {init(imported, processEnv, envWorld.files)} :
          /\ imported' = r.imported
          /\ processEnv' = r.env
          /\ envWorld' = [envWorld EXCEPT !.inits = @ + 1, !.reads = @ + r.read,
                                          !.recalled = @ \/ (imported /\ envWorld.stale)]
    /\ UNCHANGED <<progVars, call, ret>>

\* the program assigns to process.env
SetEnv(key, value) ==
    /\ envWorld.edits < MaxEnvEdits
    /\ processEnv' = SetVar(processEnv, key, value)
    /\ envWorld' = [envWorld EXCEPT !.edits = @ + 1, !.stale = @ \/ imported]
    /\ UNCHANGED <<progVars, call, ret, imported>>

\* a .env file is rewritten on disk
EditEnvFile(name) ==
    /\ envWorld.edits < MaxEnvEdits
    /\ envWorld' = [envWorld EXCEPT !.edits = @ + 1, !.stale = @ \/ imported,
                       !.files = [n \in DOMAIN @ \cup {name} |->
                                     IF n = name THEN [k \in {"API_HOST"} |-> "http://new"]
                                     ELSE @[n]]]
    /\ UNCHANGED <<progVars, call, ret, imported, processEnv>>

AssignEnv == \E key \in EnvNames : \E value \in EnvValues : SetEnv(key, value)

RewriteEnvFile == \E name \in {"development", "test"} : EditEnvFile(name)

NextEnv ==
    \/ CallInit
    \/ AssignEnv
    \/ RewriteEnvFile

SpecEnv == InitEnv /\ [][NextEnv]_vars

(***************************************************************************)
(* The logger package: getLogLevel                                         *)
(***************************************************************************)
LowerCase == <<"a", "b", "c", "d", "e", "f", "g", "h", "i", "j", "k", "l", "m",
               "n", "o", "p", "q", "r", "s", "t", "u", "v", "w", "x", "y", "z">>

UpperCase == <<"A", "B", "C", "D", "E", "F", "G", "H", "I", "J", "K", "L", "M",
               "N", "O", "P", "Q", "R", "S", "T", "U", "V", "W", "X", "Y", "Z">>

\* String.prototype.toLowerCase
toLowerCase(str) ==
    [i \in 1..Len(str) |->
        IF \E n \in 1..26 : UpperCase[n] = str[i]
        THEN LowerCase[CHOOSE n \in 1..26 : UpperCase[n] = str[i]]
        ELSE str[i]]

\* String.prototype.toUpperCase
toUpperCase(str) ==
    [i \in 1..Len(str) |->
        IF \E n \in 1..26 : LowerCase[n] = str[i]
        THEN UpperCase[CHOOSE n \in 1..26 : LowerCase[n] = str[i]]
        ELSE str[i]]

\* the keys of LOG_LEVELS (lines 11-18)
LOG_LEVELS ==
    { <<"f", "a", "t", "a", "l">>,
      <<"e", "r", "r", "o", "r">>,
      <<"w", "a", "r", "n">>,
      <<"i", "n", "f", "o">>,
      <<"d", "e", "b", "u", "g">>,
      <<"t", "r", "a", "c", "e">> }

\* what a plain object inherits from Object.prototype
ObjectPrototype ==
    { <<"c", "o", "n", "s", "t", "r", "u", "c", "t", "o", "r">>,
      <<"_", "_", "p", "r", "o", "t", "o", "_", "_">>,
      <<"h", "a", "s", "O", "w", "n", "P", "r", "o", "p", "e", "r", "t", "y">>,
      <<"i", "s", "P", "r", "o", "t", "o", "t", "y", "p", "e", "O", "f">>,
      <<"p", "r", "o", "p", "e", "r", "t", "y", "I", "s", "E", "n", "u", "m", "e", "r", "a", "b", "l", "e">>,
      <<"t", "o", "L", "o", "c", "a", "l", "e", "S", "t", "r", "i", "n", "g">>,
      <<"t", "o", "S", "t", "r", "i", "n", "g">>,
      <<"v", "a", "l", "u", "e", "O", "f">>,
      <<"_", "_", "d", "e", "f", "i", "n", "e", "G", "e", "t", "t", "e", "r", "_", "_">>,
      <<"_", "_", "d", "e", "f", "i", "n", "e", "S", "e", "t", "t", "e", "r", "_", "_">>,
      <<"_", "_", "l", "o", "o", "k", "u", "p", "G", "e", "t", "t", "e", "r", "_", "_">>,
      <<"_", "_", "l", "o", "o", "k", "u", "p", "S", "e", "t", "t", "e", "r", "_", "_">> }

\* obj[key] !== undefined, for an object literal whose values are defined: an
\* own key or an inherited one
Defined(obj, key) == key \in obj \/ key \in ObjectPrototype

\* getLogLevel() (lines 24-27), LOG_LEVEL being process.env.LOG_LEVEL
getLogLevel(LOG_LEVEL) ==
    LET level == toLowerCase(IF LOG_LEVEL.set /\ LOG_LEVEL.val # <<>>
                             THEN LOG_LEVEL.val ELSE <<"i", "n", "f", "o">>)
    IN  IF Defined(LOG_LEVELS, level) THEN level ELSE <<"i", "n", "f", "o">>

\* words to try as LOG_LEVEL
LevelWords ==
    { <<"f", "a", "t", "a", "l">>,
      <<"e", "r", "r", "o", "r">>,
      <<"w", "a", "r", "n">>,
      <<"i", "n", "f", "o">>,
      <<"d", "e", "b", "u", "g">>,
      <<"t", "r", "a", "c", "e">>,
      <<"c", "o", "n", "s", "t", "r", "u", "c", "t", "o", "r">>,
      <<"_", "_", "p", "r", "o", "t", "o", "_", "_">>,
      <<"t", "o", "s", "t", "r", "i", "n", "g">>,
      <<"v", "a", "l", "u", "e", "o", "f">>,
      <<"i", "n", "v", "a", "l", "i", "d", "-", "l", "e", "v", "e", "l">>,
      <<"v", "e", "r", "b", "o", "s", "e">>,
      <<"s", "i", "l", "e", "n", "t">>,
      <<"i", "n", "f", "o", "r", "m", "a", "t", "i", "o", "n">>,
      <<"w", "a", "r", "n", "i", "n", "g">>,
      <<"i", "n">>,
      <<"x">> }

\* a word and its spellings with one letter, or every letter, in upper case
Spellings(word) ==
    {word, toUpperCase(word)} \cup
    {[i \in 1..Len(word) |-> IF i = n THEN toUpperCase(<<word[i]>>)[1] ELSE word[i]] :
        n \in 1..Len(word)}

LevelInputs ==
    {[set |-> FALSE, val |-> <<>>], [set |-> TRUE, val |-> <<>>]} \cup
    {[set |-> TRUE, val |-> v] : v \in UNION {Spellings(word) : word \in LevelWords}}

InitLog ==
    /\ NoProcess
    /\ fs = InitFS
    /\ denied = {}
    /\ call \in {[fn |-> "getLogLevel", LOG_LEVEL |-> v] : v \in LevelInputs}
    /\ ret = NoResult
    /\ EnvAtRest

ApplyGetLogLevel ==
    /\ call.fn = "getLogLevel" /\ ~ret.done
    /\ ret' = [done |-> TRUE, val |-> getLogLevel(call.LOG_LEVEL)]
    /\ UNCHANGED <<progVars, pkgVars, call>>

NextLog == ApplyGetLogLevel

SpecLog == InitLog /\ [][NextLog]_vars

(***************************************************************************)
(* The test runner (scripts/test.js): resolveTestFile                      *)
(***************************************************************************)
MaxArgLen == 3        \* characters of the argument of resolveTestFile

\* /[*?[\]{]/.test(str)
hasGlobSyntax(str) == \E i \in 1..Len(str) : str[i] \in {"*", "?", "[", "]", "{"}

\* the repository: the root is the working directory /w
TestFS ==
    [dirs |-> { <<"/">>,
                <<"/", "w">>,
                <<"/", "w", "/", "p">>,
                <<"/", "w", "/", "p", "/", "t", "e", "s", "t">>,
                <<"/", "w", "/", "p", "/", "t", "e", "s", "t", "/", "i", "n", "t">>,
                <<"/", "w", "/", "t", "e", "s", "t">>,
                <<"/", "w", "/", "s", "c", "r", "i", "p", "t", "s">> },
     files |-> (<<"/", "w", "/", "a">> :> 1) @@
               (<<"/", "w", "/", "p", "/", "t", "e", "s", "t", "/", "a", "b", ".", "s", "p", "e", "c", ".", "j", "s">> :> 2) @@
               (<<"/", "w", "/", "p", "/", "t", "e", "s", "t", "/", "i", "n", "t", "/", "b", "a", ".", "s", "p", "e", "c", ".", "j", "s">> :> 3) @@
               (<<"/", "w", "/", "t", "e", "s", "t", "/", "b", ".", "s", "p", "e", "c", ".", "j", "s">> :> 4) @@
               (<<"/", "w", "/", "p", "/", "b", ".", "s", "p", "e", "c", ".", "j", "s">> :> 5) @@
               (<<"/", "w", "/", "p", "/", "t", "e", "s", "t", "/", "a", ".", "j", "s">> :> 6) @@
               (<<"/", "w", "/", "s", "c", "r", "i", "p", "t", "s", "/", "t", "e", "s", "t", ".", "j", "s">> :> 7),
     others |-> {}]

\* getRepoRoot(): the directory above the one of the script
getRepoRoot == Resolve(Join(<<"/", "w", "/", "s", "c", "r", "i", "p", "t", "s">>, DotDot))

\* existsSync(path), a relative path taken from the working directory; a
\* path that ends in a separator names a directory only (ENOTDIR otherwise)
existsSync(f, path) ==
    IF path # <<>> /\ path[Len(path)] = "/"
    THEN Kind(f, Resolve(path)) = "dir"
    ELSE Kind(f, Resolve(path)) # "none"

\* the characters of the paths in the order of their code units
CodeUnits == <<".", "/", "a", "b", "c", "d", "e", "f", "g", "h", "i", "j", "k", "l",
               "m", "n", "o", "p", "q", "r", "s", "t", "u", "v", "w", "x", "y", "z">>

CodeUnit(c) == CHOOSE n \in 1..Len(CodeUnits) : CodeUnits[n] = c

\* a < b for two strings, as Array.prototype.sort() compares them
RECURSIVE StrLess(_, _)
StrLess(a, b) ==
    IF b = <<>> THEN FALSE
    ELSE IF a = <<>> THEN TRUE
    ELSE IF a[1] # b[1] THEN CodeUnit(a[1]) < CodeUnit(b[1])
    ELSE StrLess(Tail(a), Tail(b))

\* files.sort()
RECURSIVE SortPaths(_)
SortPaths(S) ==
    IF S = {} THEN <<>>
    ELSE LET least == CHOOSE x \in S : \A y \in S \ {x} : StrLess(x, y)
         IN  <<least>> \o SortPaths(S \ {least})

\* findAllTestFiles() (lines 37-48)
findAllTestFiles(f) ==
    LET root == getRepoRoot
        pattern == <<"*", "*", "/", "t", "e", "s", "t", "/", "*", "*", "/", "*", ".", "s", "p", "e", "c", ".", "j", "s">>
        matches == {file \in DOMAIN f.files :
                       Under(file, root) /\ minimatchOpt(Relative(root, file), pattern, FALSE)}
    IN  SortPaths({Resolve(Join(root, Relative(root, file))) : file \in matches})

\* the loop of matchesQuery (lines 65-73), positions counted from 0
RECURSIVE matchLoop(_, _, _, _, _, _)
matchLoop(pathLower, queryLower, i, queryIndex, firstPos, lastPos) ==
    IF ~(i < Len(pathLower) /\ queryIndex < Len(queryLower))
    THEN [queryIndex |-> queryIndex, firstPos |-> firstPos, lastPos |-> lastPos]
    ELSE IF pathLower[i + 1] = queryLower[queryIndex + 1]
    THEN matchLoop(pathLower, queryLower, i + 1, queryIndex + 1,
                   IF firstPos = -1 THEN i ELSE firstPos, i)
    ELSE matchLoop(pathLower, queryLower, i + 1, queryIndex, firstPos, lastPos)

\* matchesQuery(filePath, query) (lines 57-84); the score is the fraction
\* num / den
matchesQuery(filePath, query) ==
    LET pathLower == toLowerCase(filePath)
        queryLower == toLowerCase(query)
        r == matchLoop(pathLower, queryLower, 0, 0, -1, -1)
    IN  IF r.queryIndex # Len(queryLower)
        THEN [matches |-> FALSE, num |-> 0, den |-> 1]
        ELSE [matches |-> TRUE, num |-> Len(queryLower), den |-> r.lastPos - r.firstPos + 1]

\* b.score - a.score > 0: b comes before a
ScoreAbove(b, a) == b.num * a.den > a.num * b.den

\* the sort with the comparator the other way round (a.score - b.score)
RECURSIVE SortByScore_ascending(_)
SortByScore_ascending(results) ==
    IF results = <<>> THEN <<>>
    ELSE LET rest == SortByScore_ascending(Tail(results))
             x == Head(results)
             k == Cardinality({i \in 1..Len(rest) : x.num * rest[i].den > rest[i].num * x.den})
         IN  SubSeq(rest, 1, k) \o <<x>> \o SubSeq(rest, k + 1, Len(rest))

\* .sort((a, b) => b.score - a.score): the sort is stable
RECURSIVE SortByScore(_)
SortByScore(results) ==
    IF results = <<>> THEN <<>>
    ELSE LET rest == SortByScore(Tail(results))
             x == Head(results)
             k == Cardinality({i \in 1..Len(rest) : ScoreAbove(rest[i], x)})
         IN  SubSeq(rest, 1, k) \o <<x>> \o SubSeq(rest, k + 1, Len(rest))

\* what resolveTestFile gives back or throws, with the lookups it made on
\* disk and whether it searched the repository
Resolved(file, alternatives, isGlob, lookups, searched) ==
    [threw |-> FALSE, file |-> file, alternatives |-> alternatives, isGlob |-> isGlob,
     lookups |-> lookups, searched |-> searched]

NotFound ==
    [threw |-> TRUE, file |-> <<>>, alternatives |-> <<>>, isGlob |-> FALSE,
     lookups |-> 1, searched |-> TRUE]

\* lines 140-165: the fuzzy search
fuzzySearch(f, arg) ==
    LET allFiles == findAllTestFiles(f)
        results == [i \in 1..Len(allFiles) |->
                       [file |-> allFiles[i]] @@ matchesQuery(allFiles[i], arg)]
        matchResults == SortByScore(SelectSeq(results, LAMBDA r : r.matches))
    IN  IF Len(matchResults) = 0 THEN NotFound
        ELSE Resolved(matchResults[1].file,
                      [i \in 1..(Len(matchResults) - 1) |-> matchResults[i + 1].file],
                      FALSE, 1, TRUE)

\* resolveTestFile looking on the disk before it looks for glob syntax
resolveTestFile_diskFirst(f, arg) ==
    IF existsSync(f, arg) THEN Resolved(arg, <<>>, FALSE, 1, FALSE)
    ELSE IF hasGlobSyntax(arg) THEN Resolved(arg, <<>>, TRUE, 1, FALSE)
    ELSE fuzzySearch(f, arg)

\* resolveTestFile(arg) (lines 129-166)
resolveTestFile(f, arg) ==
    IF hasGlobSyntax(arg) THEN Resolved(arg, <<>>, TRUE, 0, FALSE)
    ELSE IF existsSync(f, arg) THEN Resolved(arg, <<>>, FALSE, 1, FALSE)
    ELSE fuzzySearch(f, arg)

TestAlphabet == {"a", "b", "p", "/", "*", "{"}

TestArgs ==
    UNION {[1..n -> TestAlphabet] : n \in 1..MaxArgLen}
    \cup { <<"?">>, <<"[", "a", "]">>, <<"]">>, <<"A", "B">>, <<"t", "e", "s", "t">>,
           <<"p", "/", "t", "e", "s", "t", "/", "a", "b", ".", "s", "p", "e", "c", ".", "j", "s">>, <<"x">> }

InitTest ==
    /\ NoProcess
    /\ fs = TestFS
    /\ denied = {}
    /\ call \in {[fn |-> "resolveTestFile", arg |-> a] : a \in TestArgs}
    /\ ret = NoResult
    /\ EnvAtRest

ApplyResolveTestFile ==
    /\ call.fn = "resolveTestFile" /\ ~ret.done
    /\ ret' = [done |-> TRUE, val |-> resolveTestFile(fs, call.arg)]
    /\ UNCHANGED <<progVars, pkgVars, call>>

NextTest == ApplyResolveTestFile

SpecTest == InitTest /\ [][NextTest]_vars

\* matchesQuery on its own: short paths and queries over a small alphabet
MaxPathLen == 4       \* characters of the path given to matchesQuery

MatchAlphabet == {"a", "b", "B"}

MatchPaths == UNION {[1..n -> MatchAlphabet] : n \in 1..MaxPathLen}

\* the query is the file argument, which the script never passes on empty
\* (line 171)
MatchQueries == UNION {[1..n -> MatchAlphabet] : n \in 1..MaxArgLen}

InitMatch ==
    /\ NoProcess
    /\ fs = TestFS
    /\ denied = {}
    /\ call \in {[fn |-> "matchesQuery", filePath |-> p, query |-> q] :
                    p \in MatchPaths, q \in MatchQueries}
    /\ ret = NoResult
    /\ EnvAtRest

ApplyMatchesQuery ==
    /\ call.fn = "matchesQuery" /\ ~ret.done
    /\ ret' = [done |-> TRUE, val |-> matchesQuery(call.filePath, call.query)]
    /\ UNCHANGED <<progVars, pkgVars, call>>

NextMatch == ApplyMatchesQuery

SpecMatch == InitMatch /\ [][NextMatch]_vars

\* the script itself (lines 168-244): the arguments after the script's name,
\* the environment it reads, and the status of the child it waits for
MaxStatus == 2        \* greatest exit status of the child

\* result.status of spawnSync: null when the child was ended by a signal or
\* could not be started
ChildStatuses ==
    {[null |-> TRUE, status |-> 0]} \cup {[null |-> FALSE, status |-> n] : n \in 0..MaxStatus}

FileArgs == TestArgs \cup {EmptyStr, FlagH, FlagHelp, <<"-", "H">>}

ScriptArgv ==
    {<<>>} \cup {<<a>> : a \in FileArgs} \cup {<<a, <<"x">>>> : a \in FileArgs}
    \cup { <<<<"b">>, FlagHelp>>, <<<<"x">>, FlagH>>, <<<<"b">>, EmptyStr>>,
           <<<<"b">>, <<"x">>, FlagHelp>> }

ScriptEnvs ==
    [NODE_ENV : {"", "production"}, LOG_LEVEL : {"", "info"}, COVERAGE : {"", "true"}]

\* the script before its first statement
ScriptAtStart(env) ==
    [pc |-> "args", code |-> -1, filePath |-> <<>>, alternatives |-> <<>>,
     env |-> env, spawned |-> <<>>, help |-> FALSE, error |-> FALSE]

InitScript ==
    /\ NoProcess
    /\ fs = TestFS
    /\ denied = {}
    /\ call \in {[fn |-> "test.js", argv |-> a] : a \in ScriptArgv}
    /\ ret \in {[done |-> FALSE, val |-> ScriptAtStart(e)] : e \in ScriptEnvs}
    /\ EnvAtRest

\* const [, , fileArg, testNamePattern] = process.argv (line 168); a missing
\* argument is undefined
Given(argv, n) == n <= Len(argv)
fileArg == IF Given(call.argv, 1) THEN call.argv[1] ELSE EmptyStr
testNamePattern == IF Given(call.argv, 2) THEN call.argv[2] ELSE EmptyStr

\* !fileArg: undefined and the empty string are both falsy
Falsy(argv, n) == IF Given(argv, n) THEN argv[n] = EmptyStr ELSE TRUE

\* the test of line 171 and process.exit(fileArg ? 0 : 1) (line 187)
helpAsked(argv) ==
    IF Falsy(argv, 1) THEN TRUE ELSE argv[1] \in {FlagHelp, FlagH}

helpCode(argv) == IF Falsy(argv, 1) THEN 1 ELSE 0

\* lines 171-188
ShowHelp ==
    /\ call.fn = "test.js" /\ ~ret.done /\ ret.val.pc = "args"
    /\ helpAsked(call.argv)
    /\ ret' = [done |-> TRUE,
               val |-> [ret.val EXCEPT !.pc = "exited", !.help = TRUE,
                                       !.code = helpCode(call.argv)]]
    /\ UNCHANGED <<progVars, pkgVars, call>>

\* lines 190-221
ResolveFile ==
    /\ call.fn = "test.js" /\ ~ret.done /\ ret.val.pc = "args"
    /\ ~helpAsked(call.argv)
    /\ \E r \in {resolveTestFile(fs, fileArg)} :
          IF r.threw
          THEN ret' = [done |-> TRUE,
                       val |-> [ret.val EXCEPT !.pc = "exited", !.error = TRUE, !.code = 1]]
          ELSE ret' = [ret EXCEPT !.val.pc = "spawn", !.val.filePath = r.file,
                                  !.val.alternatives = r.alternatives]
    /\ UNCHANGED <<progVars, pkgVars, call>>

\* x ||= v
OrAssign(x, v) == IF x = "" THEN v ELSE x

\* the arguments of the child (lines 226-240)
nodeArgs(env, pattern, filePath) ==
    <<[opt |-> "--test", val |-> <<>>]>>
    \o (IF env.COVERAGE = "true"
        THEN <<[opt |-> "--experimental-test-coverage", val |-> <<>>]>> ELSE <<>>)
    \o (IF pattern # EmptyStr
        THEN <<[opt |-> "--test-name-pattern=", val |-> pattern]>> ELSE <<>>)
    \o <<[opt |-> "--test-reporter=spec", val |-> <<>>]>>
    \o <<[opt |-> "", val |-> filePath]>>

\* result.status ?? 1, and a variant that passes the missing status on as 0
exitStatus_nullIsZero(result) == IF result.null THEN 0 ELSE result.status
exitStatus(result) == IF result.null THEN 1 ELSE result.status

\* lines 223-244: the child runs to its end before the script goes on
RunTests ==
    /\ call.fn = "test.js" /\ ~ret.done /\ ret.val.pc = "spawn"
    /\ \E result \in ChildStatuses :
        \E env \in {[ret.val.env EXCEPT !.NODE_ENV = OrAssign(@, "development"),
                                        !.LOG_LEVEL = OrAssign(@, "error")]} :
          ret' = [done |-> TRUE,
                  val |-> [ret.val EXCEPT
                      !.pc = "exited", !.env = env,
                      !.spawned = Append(@, [args |-> nodeArgs(env, testNamePattern, ret.val.filePath),
                                             result |-> result]),
                      !.code = exitStatus(result)]]
    /\ UNCHANGED <<progVars, pkgVars, call>>

NextScript == ShowHelp \/ ResolveFile \/ RunTests

SpecScript == InitScript /\ [][NextScript]_vars

(***************************************************************************)
(* The Browser wrapper of the end-to-end tests. Each of the fields         *)
(* browser, context and page is "undefined", or refers to an object of     *)
(* Playwright's that is "open" or "closed".                                *)
(***************************************************************************)
MaxOps == 4           \* calls made on one Browser

\* the constructor (lines 15-19)
NewBrowser == [browser |-> "undefined", context |-> "undefined", page |-> "undefined"]

\* x.close(): an object that is closed stays closed
Closed(x) == IF x = "undefined" THEN x ELSE "closed"

\* what a method leaves: the fields, and the message of the error it threw
\* ("" when it returned)
Outcome(this, threw) == [this |-> this, threw |-> threw]

\* launchBrowser (lines 24-43) after env.init(); launched says whether
\* chromium.launch gave a browser
launchBrowser(this, launched) ==
    IF launched THEN Outcome([this EXCEPT !.browser = "open"], "")
    ELSE Outcome(this, "launch failed")

\* the catch block of startBrowser (lines 65-73)
startFailed(this, message) ==
    Outcome([this EXCEPT !.page = Closed(@), !.context = Closed(@)], message)

\* startBrowser(port) (lines 49-74); failAt names the call of Playwright's
\* that throws, host is process.env.E2E_TEST_HOST
startBrowser(this, host, failAt) ==
    IF this.browser = "undefined"
    THEN startFailed(this, "Browser not launched. Call launchBrowser() first.")
    ELSE IF failAt = "newContext" \/ this.browser = "closed"
    THEN startFailed(this, "newContext failed")
    ELSE IF failAt = "newPage"
    THEN startFailed([this EXCEPT !.context = "open"], "newPage failed")
    ELSE IF host = ""
    THEN startFailed([this EXCEPT !.context = "open", !.page = "open"],
                     "E2E_TEST_HOST environment variable not set")
    ELSE IF failAt = "goto"
    THEN startFailed([this EXCEPT !.context = "open", !.page = "open"], "goto failed")
    ELSE Outcome([this EXCEPT !.context = "open", !.page = "open"], "")

\* closeBrowser (lines 79-89); closing a context closes its pages; an error
\* of context.close() is logged and the fields stay as they are
closeBrowser(this, closes) ==
    IF this.context # "undefined" /\ ~closes THEN Outcome(this, "")
    ELSE Outcome([this EXCEPT !.context = "undefined", !.page = "undefined"], "")

\* terminateBrowser (lines 94-103); closing the browser closes its contexts
\* and pages; after an error of browser.close() the browser is in the state
\* left
terminateBrowser(this, closes, left) ==
    IF this.browser = "undefined" THEN Outcome(this, "")
    ELSE IF ~closes THEN Outcome([this EXCEPT !.browser = left], "")
    ELSE Outcome([this EXCEPT !.browser = "undefined", !.context = Closed(@),
                              !.page = Closed(@)], "")

\* a method that works on the page (waitForElement, lines 110-125, and the
\* others with the same guard)
pageOperation(this) ==
    IF this.page = "undefined" THEN Outcome(this, "No browser page available")
    ELSE IF this.page = "closed"
    THEN Outcome(this, "Target page, context or browser has been closed")
    ELSE Outcome(this, "")

\* the wrapper with what an observer keeps: the calls made, the last one and
\* what it threw, whether a browser was launched and not terminated since,
\* and whether the last startBrowser went through with no closeBrowser and
\* no terminateBrowser since
Wrapper(r, ops, op, launched, started) ==
    [this |-> r.this, ops |-> ops, op |-> op, threw |-> r.threw,
     launched |-> launched, started |-> started]

BrowserEnvs == { [k \in {} |-> ""], [k \in {"E2E_TEST_HOST"} |-> "http://localhost:8000"] }

BrowserEnvFiles ==
    { [n \in {} |-> <<>>],
      [n \in {"development"} |-> [k \in {"E2E_TEST_HOST"} |-> "http://localhost:8000"]] }

InitBrowser ==
    /\ NoProcess
    /\ fs = InitFS
    /\ denied = {}
    /\ call = [fn |-> "Browser"]
    /\ ret = [done |-> FALSE,
              val |-> Wrapper(Outcome(NewBrowser, ""), 0, "new", FALSE, FALSE)]
    /\ imported = FALSE
    /\ processEnv \in BrowserEnvs
    /\ \E f \in BrowserEnvFiles :
          envWorld = [files |-> f, inits |-> 0, reads |-> 0, edits |-> 0,
                      stale |-> FALSE, recalled |-> FALSE]

\* a call may be made
MayCall == call.fn = "Browser" /\ ret.val.ops < MaxOps

LaunchBrowser ==
    /\ MayCall
    /\ \E e \in {init(imported, processEnv, envWorld.files)} :
          /\ imported' = e.imported
          /\ processEnv' = e.env
          /\ envWorld' = [envWorld EXCEPT !.inits = @ + 1, !.reads = @ + e.read]
    /\ \E launched \in BOOLEAN :
          ret' = [ret EXCEPT !.val =
                     Wrapper(launchBrowser(ret.val.this, launched), ret.val.ops + 1,
                             "launchBrowser", ret.val.launched \/ launched, ret.val.started)]
    /\ UNCHANGED <<progVars, call>>

StartBrowser ==
    /\ MayCall
    /\ \E failAt \in {"none", "newContext", "newPage", "goto"} :
       \E host \in {IF "E2E_TEST_HOST" \in DOMAIN processEnv
                    THEN processEnv["E2E_TEST_HOST"] ELSE ""} :
       \E r \in {startBrowser(ret.val.this, host, failAt)} :
          ret' = [ret EXCEPT !.val =
                     Wrapper(r, ret.val.ops + 1, "startBrowser", ret.val.launched,
                             r.threw = "")]
    /\ UNCHANGED <<progVars, pkgVars, call>>

CloseBrowser ==
    /\ MayCall
    /\ \E closes \in BOOLEAN :
          ret' = [ret EXCEPT !.val =
                     Wrapper(closeBrowser(ret.val.this, closes), ret.val.ops + 1,
                             "closeBrowser", ret.val.launched, FALSE)]
    /\ UNCHANGED <<progVars, pkgVars, call>>

TerminateBrowser ==
    /\ MayCall
    /\ \E closes \in BOOLEAN : \E left \in {"open", "closed"} :
          ret' = [ret EXCEPT !.val =
                     Wrapper(terminateBrowser(ret.val.this, closes, left), ret.val.ops + 1,
                             "terminateBrowser", FALSE, FALSE)]
    /\ UNCHANGED <<progVars, pkgVars, call>>

PageOperation ==
    /\ MayCall
    /\ ret' = [ret EXCEPT !.val =
                  Wrapper(pageOperation(ret.val.this), ret.val.ops + 1, "pageOperation",
                          ret.val.launched, ret.val.started)]
    /\ UNCHANGED <<progVars, pkgVars, call>>

NextBrowser ==
    \/ LaunchBrowser
    \/ StartBrowser
    \/ CloseBrowser
    \/ TerminateBrowser
    \/ PageOperation

SpecBrowser == InitBrowser /\ [][NextBrowser]_vars

(***************************************************************************)
(* The server's global error handler (packages/server/src/app.js, lines    *)
(* 84-119). An error is [status, code, fastify, message]: status is        *)
(* [set, val], code is "" when the error has none, fastify says whether    *)
(* it is an error of Fastify's, message is a sequence of words.            *)
(***************************************************************************)
\* request.id
RequestIds == {"req-1", "req-2"}

InvalidMediaType == "FST_ERR_CTP_INVALID_MEDIA_TYPE"
EmptyJsonBody == "FST_ERR_CTP_EMPTY_JSON_BODY"

\* the errors a route may throw or Fastify may raise
ErrorStatuses ==
    {[set |-> FALSE, val |-> 0]} \cup
    {[set |-> TRUE, val |-> n] : n \in {0, 99, 100, 400, 404, 500, 599, 600}}

ErrorCodes == {"", "E_APP", InvalidMediaType, EmptyJsonBody, "FST_ERR_VALIDATION"}

ErrorMessages == { <<"boom">>, <<"upstream", "said", EmptyJsonBody>>, <<>> }

Errors ==
    {e \in [status : ErrorStatuses, code : ErrorCodes, fastify : BOOLEAN,
            message : ErrorMessages] :
        e.fastify => (e.code # "" /\ ~e.status.set)}

\* error.toString(): "name: message", and "name [code]: message" for an
\* error of Fastify's
toString(error) ==
    (IF error.fastify THEN <<"FastifyError", error.code>> ELSE <<"Error">>) \o error.message

\* String.prototype.includes, on words
includes(text, word) == \E i \in 1..Len(text) : text[i] = word

\* reply.code(n) throws FST_ERR_BAD_STATUS_CODE unless 100 <= n <= 599
replyCodeThrows(n) == ~(n >= 100 /\ n <= 599)

\* what the handler has done: whether it threw, the replies it sent, the
\* errors it logged
Handled(threw, replies, logged) == [threw |-> threw, replies |-> replies, logged |-> logged]

Reply(status, code, message) == [status |-> status, code |-> code, message |-> message]

Generic(id) == <<"InternalError: something went wrong (request id:", id>>

\* the handler (lines 87-116)
errorHandler(error, id) ==
    IF error.status.set /\ error.status.val # 0
    THEN LET logged == IF error.status.val = 500 THEN <<id>> ELSE <<>>
         IN  IF replyCodeThrows(error.status.val) THEN Handled(TRUE, <<>>, logged)
             ELSE Handled(FALSE, <<Reply(error.status.val, error.code, error.message)>>, logged)
    ELSE IF includes(toString(error), InvalidMediaType)
    THEN Handled(FALSE, <<Reply(400, "", <<"Body content-type must be 'application/json'">>)>>, <<>>)
    ELSE IF includes(toString(error), EmptyJsonBody)
    THEN Handled(FALSE,
                 <<Reply(400, "", <<"Body cannot be empty when content-type is set to 'application/json'">>)>>,
                 <<>>)
    ELSE Handled(FALSE, <<Reply(500, "", Generic(id))>>, <<id>>)

InitHandler ==
    /\ NoProcess
    /\ fs = InitFS
    /\ denied = {}
    /\ call \in {[fn |-> "errorHandler", error |-> e, id |-> id] :
                    e \in Errors, id \in RequestIds}
    /\ ret = NoResult
    /\ EnvAtRest

ApplyErrorHandler ==
    /\ call.fn = "errorHandler" /\ ~ret.done
    /\ ret' = [done |-> TRUE, val |-> errorHandler(call.error, call.id)]
    /\ UNCHANGED <<progVars, pkgVars, call>>

NextHandler == ApplyErrorHandler

SpecHandler == InitHandler /\ [][NextHandler]_vars

(***************************************************************************)
(* The claims                                                              *)
(***************************************************************************)

\* the directory a glob pattern is rooted in: the segments before the first
\* one that holds a wildcard, as an absolute path
GlobBaseSpec(pattern) ==
    LET parts == Split(pattern, "/")
        k == CHOOSE i \in 1..Len(parts) :
                 hasGlobChars(parts[i]) /\ \A j \in 1..(i - 1) : ~hasGlobChars(parts[j])
        text == JoinWith(SubSeq(parts, 1, k - 1), "/")
    IN  IF IsAbsolute(pattern) THEN Resolve(Slash \o text) ELSE Resolve(text)

\* C7: for every pattern that holds a wildcard, findGlobBase returns the
\* deepest wildcard-free directory above every possible match: the text
\* before the first wildcard cut at the last separator before it, also when
\* the first wildcard is in the first segment below the root.
C7_GlobBaseIsDeepestLiteralDir ==
    (ret.done /\ call.fn = "findGlobBase" /\ hasGlobChars(call.pattern))
        => Resolve(ret.val) = GlobBaseSpec(call.pattern)

\* the files a walk of dir has to return
FindExpected ==
    {f \in DOMAIN fs.files : Under(f, call.dir) /\ minimatchOpt(f, call.pattern, TRUE)}

\* every directory the walk reads can be read
FindReadable ==
    /\ Kind(fs, call.dir) = "dir"
    /\ \A d \in fs.dirs : Under(d, call.dir) => d \notin denied

\* C9: findFiles returns exactly the regular files at any depth under dir
\* whose path matches the pattern, dotfiles included, never a directory or
\* another non-regular entry; a directory that cannot be read, at any depth,
\* makes the call throw instead of returning a part of the result.
C9_FindFilesExact ==
    (ret.done /\ call.fn = "findFiles") =>
        \E r \in {ret.val} :
            IF FindReadable
            THEN /\ ~r.err
                 /\ {r.files[i].absolute : i \in 1..Len(r.files)} = FindExpected
                 /\ Len(r.files) = Cardinality(FindExpected)
                 /\ \A i \in 1..Len(r.files) : Kind(fs, r.files[i].absolute) = "file"
            ELSE r.err /\ r.files = <<>>

\* a walk that returned a dotfile and a file three directories down
C9_Witness ==
    /\ ret.done /\ call.fn = "findFiles" /\ ~ret.val.err
    /\ \E i, j \in 1..Len(ret.val.files) :
          /\ ret.val.files[i].absolute = <<"/", "s", "/", ".", "e">>
          /\ ret.val.files[j].absolute = <<"/", "s", "/", "d", "/", "e", "/", "a">>

\* the tree a run started from
TreeBefore == IF hist.run = 1 THEN InitFS ELSE hist.fs1

\* the path of a file below a directory that holds it
Below(dir, file) ==
    LET n == Len(Segs(dir))
        fsegs == Segs(file)
    IN  JoinWith(SubSeq(fsegs, n + 1, Len(fsegs)), "/")

\* outputDir/<relative path>, written out
DestOf(relativePath) == outputDir \o Slash \o relativePath

\* the matches of the patterns before the i-th one
RECURSIVE MatchesBefore(_, _)
MatchesBefore(per, i) ==
    IF i <= 1 THEN 0 ELSE per[i - 1].n + MatchesBefore(per, i - 1)

\* the passes in flight and the one that ended last
KnownPasses == {passes[k] : k \in 1..Len(passes)} \cup {last}

\* C1: for every glob pattern P whose base directory B exists and every
\* regular file F under B that matches P, a pass that completes without
\* error leaves at outputDir/rel(B,F) a copy of F's content; the path is
\* never taken relative to the pattern string or the working directory.
C1_StructurePreserved ==
    (hist.run = 1 /\ last.outcome = "ok") =>
        \A i \in 1..Len(patterns) :
            hasGlobChars(patterns[i]) =>
                \E B \in {GlobBaseSpec(patterns[i])} :
                    Kind(InitFS, B) = "dir" =>
                        \A F \in DOMAIN InitFS.files :
                            (Under(F, B) /\ minimatchOpt(F, patterns[i], TRUE)) =>
                                \E dest \in {DestOf(Below(B, F))} :
                                    /\ dest \in DOMAIN fs.files
                                    /\ fs.files[dest] = InitFS.files[F]

\* C2: whenever the matches of all patterns of a pass are empty, the process
\* exits with code 1, and that pass copies no file and creates no directory:
\* no pass with no match reaches the copying, and the pass that ended with
\* no match left the tree as it found it.
C2_NoMatchExitsOne ==
    /\ \A k \in 1..Len(passes) :
           passes[k].pc = "copy" => passes[k].allFiles # <<>>
    /\ (last.outcome # "none" /\ last.allFiles = <<>> /\ Len(last.per) = Len(patterns)) =>
           /\ proc = "exited" /\ exitCode = 1
           /\ last.ncopied = 0
           /\ fs = TreeBefore

\* a run of two patterns that both matched nothing
C2_Witness ==
    /\ proc = "exited" /\ exitReason = "nomatch"
    /\ Len(patterns) = 2 /\ last.allFiles = <<>> /\ Len(last.per) = 2

\* the last segment of a path
LastSeg(p) == Segs(p)[Len(Segs(p))]

\* the i-th argument is a literal path to a regular file
LiteralFile(i) == ~hasGlobChars(patterns[i]) /\ Kind(InitFS, patterns[i]) = "file"

\* C10: an argument without wildcard characters that names an existing
\* regular file yields exactly one match, and its destination is
\* outputDir/<basename>, with no directory nesting: the match carries the
\* basename as its relative path, and once copied the basename under
\* outputDir holds the file's content.
C10_LiteralFileByBasename ==
    \A p \in KnownPasses :
        \A i \in 1..Len(p.per) :
            LiteralFile(i) =>
                \E at \in {MatchesBefore(p.per, i) + 1} :
                    /\ p.per[i].n = 1
                    /\ p.allFiles[at] = [absolute |-> patterns[i],
                                         relative |-> LastSeg(patterns[i])]
                    /\ ( \/ ("pc" \in DOMAIN p /\ p.pc = "copy" /\ p.i = at + 1)
                         \/ ("outcome" \in DOMAIN p /\ p.outcome = "ok"
                                /\ at = Len(p.allFiles)) )
                           => /\ DestOf(LastSeg(patterns[i])) \in DOMAIN fs.files
                              /\ fs.files[DestOf(LastSeg(patterns[i]))]
                                    = InitFS.files[patterns[i]]
                              /\ Dirname(DestOf(LastSeg(patterns[i]))) = outputDir

\* a literal file named after a literal directory, copied by its basename
C10_Witness ==
    /\ proc = "exited" /\ exitCode = 0
    /\ patterns = << <<"/", "s", "/", "d">>, <<"/", "s", "/", "a">> >>
    /\ DestOf(<<"a">>) \in DOMAIN fs.files
    /\ fs.files[DestOf(<<"a">>)] = InitFS.files[<<"/", "s", "/", "a">>]

\* the i-th argument resolves to nothing: a literal path that is missing or
\* not a regular file, or a glob whose base directory does not exist
Unresolvable(i) ==
    IF hasGlobChars(patterns[i])
    THEN Kind(InitFS, GlobBaseSpec(patterns[i])) = "none"
    ELSE Kind(InitFS, patterns[i]) # "file"

\* the filesystem refuses none of the copies of the matches
NoCopyRefused(allFiles) ==
    \A j \in 1..Len(allFiles) : DestOf(allFiles[j].relative) \notin denied

\* every match has been copied: its destination holds the content of the
\* last match written there (a match under outputDir may itself have been
\* written over since it was copied)
AllCopied(allFiles) ==
    \A j \in 1..Len(allFiles) :
        \E dest \in {DestOf(allFiles[j].relative)} :
            /\ dest \in DOMAIN fs.files
            /\ \E k \in j..Len(allFiles) :
                  /\ DestOf(allFiles[k].relative) = dest
                  /\ \/ fs.files[dest] = fs.files[allFiles[k].absolute]
                     \/ Under(allFiles[k].absolute, outputDir)

\* C8: a pattern that resolves to nothing contributes zero matches and one
\* warning and never aborts the run: whenever another pattern matches a
\* file, and the filesystem refuses no copy, all matches of the other
\* patterns are copied and the run without --watch ends with exit code 0.
C8_UnresolvableOnlyWarns ==
    /\ \A p \in KnownPasses :
           \A i \in 1..Len(p.per) :
               Unresolvable(i) => p.per[i] = [n |-> 0, w |-> 1]
    /\ (proc = "exited" /\ ~watchMode
           /\ (\E i \in 1..Len(patterns) : Unresolvable(i))
           /\ last.allFiles # <<>> /\ NoCopyRefused(last.allFiles)) =>
           /\ exitCode = 0 /\ last.outcome = "ok"
           /\ Len(last.per) = Len(patterns)
           /\ last.ncopied = Len(last.allFiles)
           /\ AllCopied(last.allFiles)

\* a glob with a missing base directory ahead of a glob that matched: the
\* run ended with code 0 and one warning
C8_Witness ==
    /\ proc = "exited" /\ exitCode = 0
    /\ patterns = << <<"/", "m", "/", "*">>, <<"/", "s", "/", "*">> >>
    /\ last.warned = 1 /\ last.ncopied = 2

\* what lies at or under outputDir
DestTree(f) ==
    [dirs |-> {d \in f.dirs : Under(d, outputDir)},
     files |-> [p \in {q \in DOMAIN f.files : Under(q, outputDir)} |-> f.files[p]],
     others |-> {o \in f.others : Under(o, outputDir)}]

\* C6 as stated: for every list of patterns and every output directory, a
\* second run with the same arguments and no change to the source files
\* leaves the destination tree as the first run left it.
C6_SecondRunChangesNothing ==
    (hist.run = 2 /\ proc = "exited") => DestTree(fs) = DestTree(hist.fs1)

\* no pattern can match what a run writes: outputDir lies neither in nor
\* above the base directory of a glob, and no literal argument lies under it
OutputApart ==
    \A i \in 1..Len(patterns) :
        IF hasGlobChars(patterns[i])
        THEN \E B \in {GlobBaseSpec(patterns[i])} :
                 ~Under(outputDir, B) /\ ~Under(B, outputDir)
        ELSE ~Under(patterns[i], outputDir)

\* C6, amended: when outputDir lies apart from everything the patterns can
\* match, a second run with the same arguments and no change to the source
\* files leaves the destination tree as the first run left it.
C6_SecondRunChangesNothingApart ==
    (hist.run = 2 /\ proc = "exited" /\ OutputApart)
        => DestTree(fs) = DestTree(hist.fs1)

\* a second run that copied two files again into a tree apart from them
C6_Witness ==
    /\ hist.run = 2 /\ proc = "exited" /\ exitCode = 0 /\ OutputApart
    /\ last.ncopied >= 2
    /\ DestTree(fs) # DestTree(InitFS)

Subscribed ==
    {GlobBaseSpec(patterns[i]) :
        i \in {j \in 1..Len(patterns) : hasGlobChars(patterns[j])
                                          /\ Kind(InitFS, GlobBaseSpec(patterns[j])) = "dir"}}

\* C4: in watch mode, when a pass started by a change fails on an error of
\* a directory read, a stat or a copy, the error is caught, the process does
\* not exit, the watchers stay registered, and a later change event still
\* starts a new pass: after such a failure the process runs unless it was
\* interrupted, watches what it watched, and has its timer armed whenever an
\* event came less than the quiet period ago.
C4_FailedPassKeepsWatching ==
    (last.trigger = "watch" /\ last.outcome = "error") =>
        IF proc = "exited" THEN exitReason = "interrupt"
        ELSE /\ mainPc = "watching"
             /\ {watchers[i] : i \in 1..Len(watchers)} = Subscribed /\ watchers # <<>>
             /\ hist.age < DebounceMs => (timers # <<>> /\ debounceTimer = "pending")

\* a pass started by a change failed, and a later change started another
C4_Witness ==
    /\ proc = "running"
    /\ hist.failedAt >= 1 /\ hist.started > hist.failedAt
    /\ last.trigger = "watch" /\ last.outcome = "error"

\* C5: once watch mode is active the process has no stop condition of its
\* own: whatever the changes and the outcomes of the passes, it is running
\* and watching unless it received an interrupt.
C5_WatchEndsOnlyOnInterrupt ==
    hist.active =>
        IF proc = "exited" THEN exitReason = "interrupt"
        ELSE mainPc = "watching" /\ watchers # <<>>

\* the arguments that are not a watch flag, in their order
Positional(argv) ==
    LET idx == {i \in 1..Len(argv) : argv[i] \notin {FlagW, FlagWatch}}
        nth(k) == CHOOSE i \in idx : Cardinality({j \in idx : j < i}) = k - 1
    IN  [k \in 1..Cardinality(idx) |-> argv[nth(k)]]

\* help is asked for somewhere on the command line
HelpAsked(argv) == \E i \in 1..Len(argv) : argv[i] \in {FlagH, FlagHelp}

\* an argument taken as a path from the working directory /w
FromCwd(arg) == IF arg[1] = "/" THEN arg ELSE <<"/", "w", "/">> \o arg

\* the process ended on its command line: nothing processed, nothing written
EndedOnUsage(code) ==
    /\ proc = "exited" /\ exitCode = code /\ exitReason = "usage"
    /\ passes = <<>> /\ last = NoPass /\ fs = InitFS /\ patterns = <<>>

\* C11: the process exits 0 when -h or --help is anywhere in the arguments,
\* exits 1 when there is no argument, and exits 1 when fewer than two
\* arguments remain once every -w/--watch is removed, in all three cases
\* with no pattern processed and nothing written; otherwise the last
\* remaining argument is the output directory and the earlier ones are the
\* patterns.
C11_CommandLine ==
    (call.fn = "node" /\ mainPc # "args") =>
        \E pos \in {Positional(call.argv)} :
            IF HelpAsked(call.argv) THEN EndedOnUsage(0)
            ELSE IF Len(call.argv) = 0 \/ Len(pos) < 2 THEN EndedOnUsage(1)
            ELSE /\ exitReason # "usage"
                 /\ outputDir = FromCwd(pos[Len(pos)])
                 /\ patterns = [i \in 1..(Len(pos) - 1) |-> FromCwd(pos[i])]
                 /\ watchMode = (\E i \in 1..Len(call.argv) :
                                    call.argv[i] \in {FlagW, FlagWatch})

\* a watch flag between a relative pattern and the output directory: the
\* run copied /w/a and went on to watch mode
C11_Witness ==
    /\ call.fn = "node"
    /\ call.argv = << <<"a">>, FlagWatch, <<"/", "o">> >>
    /\ watchMode /\ patterns = << <<"/", "w", "/", "a">> >>
    /\ last.outcome = "ok" /\ last.ncopied = 1

\* C12: in watch mode exactly one watch is registered per distinct base
\* directory of the glob patterns (those that exist when the watchers are
\* set up): a base directory shared by several patterns is watched once, and
\* no watch is registered for a literal pattern.
C12_OneWatchPerBase ==
    (watchMode /\ mainPc = "watching") =>
        /\ \A B \in Subscribed :
               Cardinality({i \in 1..Len(watchers) : watchers[i] = B}) = 1
        /\ \A i \in 1..Len(watchers) : watchers[i] \in Subscribed

\* two globs that share the base /s: one watch
C12_Witness ==
    /\ watchMode /\ mainPc = "watching"
    /\ patterns = << <<"/", "s", "/", "*">>, <<"/", "s", "/", "*", "*", "/", "a">> >>
    /\ watchers = << <<"/", "s">> >>

\* the file of a literal pattern is written from outside in this step
LiteralWritten ==
    /\ hist'.changes = hist.changes + 1
    /\ \E i \in 1..Len(patterns) :
          /\ ~hasGlobChars(patterns[i])
          /\ patterns[i] \in DOMAIN fs.files
          /\ fs'.files[patterns[i]] # fs.files[patterns[i]]

\* the file of a literal pattern, lying under no base directory of a glob, is
\* written from outside in this step
LiteralWrittenApart ==
    /\ hist'.changes = hist.changes + 1
    /\ \E i \in 1..Len(patterns) :
          /\ ~hasGlobChars(patterns[i])
          /\ patterns[i] \in DOMAIN fs.files
          /\ fs'.files[patterns[i]] # fs.files[patterns[i]]
          /\ \A B \in Subscribed : ~Under(patterns[i], B)

\* the step raised no change event: no timer armed, no burst opened
NoEventRaised ==
    /\ hist' = [hist EXCEPT !.changes = @ + 1]
    /\ UNCHANGED <<debounceTimer, timers, passes>>

\* C13 as stated: a modification of a literal pattern's file never triggers
\* a pass, wherever the file lies relative to the base directories of the
\* glob patterns.
C13_LiteralNeverTriggers == [][LiteralWritten => NoEventRaised]_vars

\* C13, amended: a modification of a literal pattern's file that lies under
\* no base directory of a glob pattern never triggers a pass.
C13_LiteralApartNeverTriggers == [][LiteralWrittenApart => NoEventRaised]_vars

\* the literal /s/a, apart from the watched /s/d, was written and nothing
\* stirred
C13_Witness ==
    /\ proc = "running" /\ mainPc = "watching"
    /\ patterns = << <<"/", "s", "/", "a">>, <<"/", "s", "/", "d", "/", "?">> >>
    /\ fs.files[<<"/", "s", "/", "a">>] # InitFS.files[<<"/", "s", "/", "a">>]
    /\ hist.changes = 1 /\ hist.bursts = 0 /\ timers = <<>> /\ passes = <<>>

\* the files a pattern has to match in a tree
ExpectedMatches(f, pattern) ==
    IF ~hasGlobChars(pattern)
    THEN IF Kind(f, pattern) = "file" THEN {pattern} ELSE {}
    ELSE IF Kind(f, GlobBaseSpec(pattern)) # "dir" THEN {}
    ELSE {F \in DOMAIN f.files :
             Under(F, GlobBaseSpec(pattern)) /\ minimatchOpt(F, pattern, TRUE)}

\* a pass has come as far as its notes say, and ends its resolving only
\* with every pattern done
PassesInStep ==
    /\ \A k \in 1..Len(passes) :
           IF passes[k].pc = "resolve"
           THEN passes[k].i = Len(passes[k].per) + 1 /\ passes[k].i <= Len(patterns)
           ELSE Len(passes[k].per) = Len(patterns)
    /\ last.outcome \in {"ok", "nomatch"} => Len(last.per) = Len(patterns)

\* a pass that goes on in this step took the next pattern in turn, and added
\* what that pattern matches in the tree as it is
NextPatternResolved ==
    \A k \in 1..Len(passes) :
        (passes[k].pc = "resolve" /\ Len(passes') = Len(passes) /\ passes'[k] # passes[k]) =>
            \E j \in {Len(passes[k].per) + 1} :
            \E n \in {Len(passes[k].allFiles)} :
            \E want \in {ExpectedMatches(fs, patterns[j])} :
                /\ Len(passes'[k].per) = j
                /\ passes'[k].per[j].n = Cardinality(want)
                /\ Len(passes'[k].allFiles) = n + Cardinality(want)
                /\ SubSeq(passes'[k].allFiles, 1, n) = passes[k].allFiles
                /\ {passes'[k].allFiles[x].absolute :
                       x \in (n + 1)..Len(passes'[k].allFiles)} = want
                /\ passes'[k].pc = "copy" => j = Len(patterns)

\* C14: every pass started by a change re-evaluates every pattern of the
\* command line from scratch, glob and literal alike, as the initial pass
\* does, whichever directory raised the event: every pass, whatever started
\* it, takes the patterns in turn from the first, adds for each what it
\* matches in the tree as it then is, and leaves none out.
C14_EveryPassResolvesAll == [](PassesInStep) /\ [][NextPatternResolved]_vars

\* a pass started by a change under /s/d evaluated the literal /s/a again
C14_Witness ==
    /\ last.trigger = "watch" /\ last.outcome = "ok"
    /\ patterns = << <<"/", "s", "/", "a">>, <<"/", "s", "/", "d", "/", "?">> >>
    /\ Len(last.per) = 2 /\ last.per[1].n = 1 /\ last.per[2].n = 0

\* the first match whose copy the filesystem refuses, 0 when there is none
FirstRefused(allFiles) ==
    IF NoCopyRefused(allFiles) THEN 0
    ELSE CHOOSE k \in 1..Len(allFiles) :
             /\ DestOf(allFiles[k].relative) \in denied
             /\ \A j \in 1..(k - 1) : DestOf(allFiles[j].relative) \notin denied

\* C15: when the copy of the k-th matched file of a pass fails, the failure
\* propagates, none of the files after the k-th is copied in that pass, and
\* what was written for the first k-1 files stays in place: the files the
\* run added to the tree are the destinations of the first k-1 matches, each
\* with the content of the last of them written there.
C15_FailedCopyStopsPass ==
    (hist.run = 1 /\ ~watchMode /\ last.outcome # "none" /\ last.allFiles # <<>>) =>
        \E k \in {FirstRefused(last.allFiles)} :
            k > 0 =>
                /\ last.outcome = "error" /\ last.ncopied = k - 1
                /\ DOMAIN fs.files \ DOMAIN InitFS.files
                      = {DestOf(last.allFiles[j].relative) : j \in 1..(k - 1)}
                /\ AllCopied(SubSeq(last.allFiles, 1, k - 1))
                /\ \A F \in DOMAIN InitFS.files : fs.files[F] = InitFS.files[F]

\* a copy after the first failed: the first is in place, and a file matched
\* after the one that failed was not copied
C15_Witness ==
    /\ hist.run = 1 /\ ~watchMode /\ last.outcome = "error"
    /\ last.ncopied >= 1
    /\ DestOf(last.allFiles[1].relative) \in DOMAIN fs.files
    /\ \E j \in (last.ncopied + 2)..Len(last.allFiles) :
          DestOf(last.allFiles[j].relative) \notin DOMAIN fs.files

\* C16: a filesystem failure while copying aborts the pass; without --watch
\* the process then exits with code 1, and in watch mode, for every pass
\* including the initial one, the failure is logged and the session goes on.
C16_CopyFailureByMode ==
    (call.fn = "node" /\ last.outcome = "error") =>
        IF watchMode
        THEN proc = "running" \/ exitReason = "interrupt"
        ELSE proc = "exited" /\ exitCode = 1

\* a source file is matched more than once
HasDuplicates(allFiles) ==
    \E j, k \in 1..Len(allFiles) : j < k /\ allFiles[j].absolute = allFiles[k].absolute

\* the matches of one source file all name the same destination
DuplicatesAgree(allFiles) ==
    \A j, k \in 1..Len(allFiles) :
        allFiles[j].absolute = allFiles[k].absolute
            => allFiles[j].relative = allFiles[k].relative

\* the matches with every source file kept once
RECURSIVE KeepOne(_, _)
KeepOne(allFiles, j) ==
    IF j > Len(allFiles) THEN <<>>
    ELSE IF \E k \in (j + 1)..Len(allFiles) : allFiles[k].absolute = allFiles[j].absolute
    THEN KeepOne(allFiles, j + 1)
    ELSE <<allFiles[j]>> \o KeepOne(allFiles, j + 1)

\* the tree after the files are copied one by one
RECURSIVE CopyAll(_, _, _)
CopyAll(f, files, j) ==
    IF j > Len(files) THEN f
    ELSE CopyAll(copyOne(f, denied, files[j], outputDir).fs, files, j + 1)

\* the matches of a pass are those of its patterns, one after the other
Concatenated(p) == Len(p.allFiles) = MatchesBefore(p.per, Len(p.per) + 1)

\* C17 as stated: matches are concatenated without deduplication, and for any
\* two patterns that match the same source file the second copy overwrites
\* the first with the same content, so that the destination tree is the one
\* produced when the file is matched only once.
C17_DuplicateMatchHarmless ==
    (hist.run = 1 /\ last.outcome = "ok") =>
        /\ Concatenated(last) /\ last.ncopied = Len(last.allFiles)
        /\ DuplicatesAgree(last.allFiles)
        /\ fs = CopyAll(InitFS, KeepOne(last.allFiles, 1), 1)

\* C17, amended: matches are concatenated without deduplication, and for any
\* two patterns that match the same source file at the same path relative to
\* their base directories the second copy overwrites the first with the same
\* content, so that the destination tree is the one produced when the file
\* is matched only once.
C17_DuplicateSameDestHarmless ==
    (hist.run = 1 /\ last.outcome = "ok") =>
        /\ Concatenated(last) /\ last.ncopied = Len(last.allFiles)
        /\ DuplicatesAgree(last.allFiles)
               => fs = CopyAll(InitFS, KeepOne(last.allFiles, 1), 1)

\* /s/a matched by two globs of the same base and copied twice
C17_Witness ==
    /\ hist.run = 1 /\ last.outcome = "ok"
    /\ HasDuplicates(last.allFiles) /\ DuplicatesAgree(last.allFiles)
    /\ patterns = << <<"/", "s", "/", "*">>, <<"/", "s", "/", "*", "*", "/", "a">> >>
    /\ last.ncopied = 4

\* a call of env.init() after the first one changes nothing and reads nothing
LaterInitInert ==
    (envWorld.inits >= 1 /\ envWorld'.inits = envWorld.inits + 1) =>
        /\ processEnv' = processEnv
        /\ envWorld'.reads = envWorld.reads
        /\ imported'

\* the .env file is read by the first call and by no other
ReadOnce ==
    /\ envWorld.reads <= 1
    /\ envWorld.inits >= 1 => (imported /\ envWorld.reads = 1)

\* C18: env.init() initializes the environment at most once: after the
\* first call has returned, every later call returns without reading the
\* .env file and without changing a variable, even when NODE_ENV or a
\* loaded variable was changed between the calls.
C18_InitOnce == [](ReadOnce) /\ [][LaterInitInert]_vars

\* init() was called again after the environment had changed under it
C18_Witness ==
    /\ envWorld.inits = 2 /\ envWorld.recalled /\ envWorld.reads = 1
    /\ "API_HOST" \in DOMAIN processEnv /\ processEnv["API_HOST"] = "test"

\* the six level names
SixLevels ==
    { <<"f", "a", "t", "a", "l">>, <<"e", "r", "r", "o", "r">>, <<"w", "a", "r", "n">>,
      <<"i", "n", "f", "o">>, <<"d", "e", "b", "u", "g">>, <<"t", "r", "a", "c", "e">> }

\* C19: for every value of LOG_LEVEL (unset, empty, or any string in any
\* letter case) the level the logger is configured with is one of fatal,
\* error, warn, info, debug, trace: the lower-cased LOG_LEVEL when that is
\* one of the six, and info for every other value.
C19_LevelIsOneOfSix ==
    (ret.done /\ call.fn = "getLogLevel") =>
        /\ ret.val \in SixLevels
        /\ ret.val = IF call.LOG_LEVEL.set /\ toLowerCase(call.LOG_LEVEL.val) \in SixLevels
                     THEN toLowerCase(call.LOG_LEVEL.val)
                     ELSE <<"i", "n", "f", "o">>

\* the argument names something in the tree: its segments, from the working
\* directory when it is relative, are those of an entry, which is a
\* directory when the argument ends in a separator
OnDisk(arg) ==
    \E q \in Paths(fs) :
        /\ Segs(q) = Segs(FromCwd(arg))
        /\ arg[Len(arg)] = "/" => q \in fs.dirs

\* C20: resolveTestFile classifies its argument in a fixed order: one with
\* glob syntax is returned unchanged with isGlob true and never looked up on
\* disk; otherwise one that is an existing path is returned unchanged; only
\* otherwise is the search over the repository's test files run. In the
\* first two cases alternatives is empty.
C20_ClassifiedInOrder ==
    (ret.done /\ call.fn = "resolveTestFile") =>
        \E r \in {ret.val} :
            IF \E i \in 1..Len(call.arg) : call.arg[i] \in {"*", "?", "[", "]", "{"}
            THEN /\ ~r.threw /\ r.file = call.arg /\ r.isGlob
                 /\ r.alternatives = <<>> /\ r.lookups = 0 /\ ~r.searched
            ELSE IF OnDisk(call.arg)
            THEN /\ ~r.threw /\ r.file = call.arg /\ ~r.isGlob
                 /\ r.alternatives = <<>> /\ ~r.searched
            ELSE r.searched /\ ~r.isGlob

\* the three cases: a glob that is also a path on disk, a directory, a
\* search that found more than one file
C20_Witness ==
    /\ ret.done /\ call.fn = "resolveTestFile"
    /\ \/ call.arg = <<"p", "/", "*">> /\ ret.val.isGlob
       \/ call.arg = <<"p">> /\ ret.val.file = <<"p">> /\ ~ret.val.searched
       \/ call.arg = <<"b">> /\ ret.val.searched /\ Len(ret.val.alternatives) = 2

\* the positions (from 1) at which the characters of q can be found in p, in
\* order: the strictly increasing maps from the query into the path
Occurrences(p, q) ==
    {m \in [1..Len(q) -> 1..Len(p)] :
        /\ \A i \in 1..Len(q) : p[m[i]] = q[i]
        /\ \A i \in 1..(Len(q) - 1) : m[i] < m[i + 1]}

OccursAdjacent(p, q) ==
    \E m \in Occurrences(p, q) : \A i \in 1..(Len(q) - 1) : m[i + 1] = m[i] + 1

\* C21: matchesQuery reports a match exactly when the query is a
\* case-insensitive subsequence of the path; the score of a match is the
\* length of the query over the span of an occurrence, lies in (0, 1], and is
\* 1 whenever the characters of the query stand next to one another somewhere
\* in the path
C21_ScoreOfTightestOccurrence ==
    (call.fn = "matchesQuery" /\ ret.done) =>
        LET p == toLowerCase(call.filePath)
            q == toLowerCase(call.query)
            r == ret.val
        IN  /\ r.matches <=> Occurrences(p, q) # {}
            /\ r.matches =>
                  /\ \E m \in Occurrences(p, q) :
                        r.num = Len(q) /\ r.den = m[Len(q)] - m[1] + 1
                  /\ 0 < r.num /\ r.num <= r.den
                  /\ OccursAdjacent(p, q) => r.num = r.den

\* the test files of the repository: the files below the root with a
\* directory named test above them and a name that ends in .spec.js
IsTestFile(file) ==
    LET rel == Segs(Relative(<<"/", "w">>, file))
        name == rel[Len(rel)]
        ext == <<".", "s", "p", "e", "c", ".", "j", "s">>
    IN  /\ Under(file, <<"/", "w">>)
        /\ \E i \in 1..(Len(rel) - 1) : rel[i] = <<"t", "e", "s", "t">>
        /\ Len(name) >= Len(ext)
        /\ SubSeq(name, Len(name) - Len(ext) + 1, Len(name)) = ext

FuzzyMatching(arg) ==
    {file \in DOMAIN fs.files : IsTestFile(file) /\ matchesQuery(file, arg).matches}

\* the score of a is at least the score of b
ScoreAtLeast(a, b, arg) ==
    matchesQuery(a, arg).num * matchesQuery(b, arg).den
        >= matchesQuery(b, arg).num * matchesQuery(a, arg).den

Searched ==
    /\ ret.done /\ call.fn = "resolveTestFile"
    /\ ~hasGlobSyntax(call.arg) /\ ~OnDisk(call.arg)
    /\ FuzzyMatching(call.arg) # {}

\* C22: when the argument has no glob syntax, names nothing on disk and at
\* least one test file matches it, the file returned has the greatest score
\* of the matching files, and the alternatives are all the other matching
\* files, each once, from the greater score to the lesser
C22_BestMatchAndTheRest ==
    Searched =>
        \E r \in {ret.val} : \E all \in {FuzzyMatching(call.arg)} :
            /\ ~r.threw /\ ~r.isGlob
            /\ r.file \in all
            /\ \A other \in all : ScoreAtLeast(r.file, other, call.arg)
            /\ {r.alternatives[i] : i \in 1..Len(r.alternatives)} = all \ {r.file}
            /\ Len(r.alternatives) = Cardinality(all) - 1
            /\ \A i \in 1..(Len(r.alternatives) - 1) :
                  ScoreAtLeast(r.alternatives[i], r.alternatives[i + 1], call.arg)

\* a search that found files of different scores
C22_Witness ==
    /\ Searched
    /\ Len(ret.val.alternatives) >= 2
    /\ \E i \in 1..Len(ret.val.alternatives) :
          ~ScoreAtLeast(ret.val.alternatives[i], ret.val.file, call.arg)

\* resolution finds no test file for the argument
NoneFound(arg) ==
    IF arg = EmptyStr \/ hasGlobSyntax(arg) THEN FALSE
    ELSE ~OnDisk(arg) /\ FuzzyMatching(arg) = {}

\* the exit code of the finished script and the children it started, where
\* noFile says which argument lists count as giving no file argument
ExitCodeAsStated(noFile) ==
    (call.fn = "test.js" /\ ret.done) =>
        \E r \in {ret.val} :
            IF noFile THEN r.code = 1 /\ r.spawned = <<>>
            ELSE IF call.argv[1] \in {<<"-", "-", "h", "e", "l", "p">>, <<"-", "h">>}
            THEN r.code = 0 /\ r.spawned = <<>>
            ELSE IF NoneFound(call.argv[1]) THEN r.code = 1 /\ r.spawned = <<>>
            ELSE /\ Len(r.spawned) = 1
                 /\ r.code = IF r.spawned[1].result.null THEN 1
                             ELSE r.spawned[1].result.status

\* C23 as stated: the script exits with 1 when no file argument is given,
\* with 0 when the first argument is --help or -h, with 1 when no test file
\* is found, in these cases without starting a child; in every other case
\* with the exit status of the one child it started, 1 when that has none
C23_ExitCode == ExitCodeAsStated(Len(call.argv) = 0)

\* C23: as above, where an empty first argument counts as no file argument
C23_ExitCodeEmptyIsNone ==
    ExitCodeAsStated(IF Len(call.argv) = 0 THEN TRUE ELSE call.argv[1] = <<>>)

\* a child that ended without an exit status, and a child that failed
C23_Witness ==
    /\ call.fn = "test.js" /\ ret.done
    /\ Len(ret.val.spawned) = 1
    /\ \/ ret.val.spawned[1].result.null /\ ret.val.code = 1
       \/ ~ret.val.spawned[1].result.null /\ ret.val.code = 2

\* the matches a pass holds for its j-th pattern
MatchesOf(p, j) ==
    {p.allFiles[x] : x \in (MatchesBefore(p.per, j) + 1)..MatchesBefore(p.per, j + 1)}

\* the matches of a pass that copies, or has ended, stand in the order of
\* the patterns: those of the first pattern, then those of the second, ...
InPatternOrder ==
    \A p \in {q \in KnownPasses : q.allFiles # <<>> /\ Len(q.per) = Len(patterns)} :
        /\ Concatenated(p)
        /\ \A j \in 1..Len(patterns) :
              \E found \in {processPattern(TreeBefore, denied, patterns[j]).files} :
                  MatchesOf(p, j) = {found[x] : x \in 1..Len(found)}

\* the last of the matches that is copied to the place of the x-th
LastTo(allFiles, x) ==
    CHOOSE y \in x..Len(allFiles) :
        /\ allFiles[y].relative = allFiles[x].relative
        /\ \A z \in (y + 1)..Len(allFiles) : allFiles[z].relative # allFiles[x].relative

\* after a pass that went through, a destination holds the content of the
\* last match copied there
LaterPatternWins ==
    (hist.run = 1 /\ last.outcome = "ok") =>
        \A x \in 1..Len(last.allFiles) :
            \E dest \in {DestOf(last.allFiles[x].relative)} :
                /\ dest \in DOMAIN fs.files
                /\ fs.files[dest] =
                      InitFS.files[last.allFiles[LastTo(last.allFiles, x)].absolute]

\* a step of a pass that copies handles the one match that is next in turn:
\* nothing but its destination is written, and the pass moves on by one
OneCopyAtATime ==
    \A k \in 1..Len(passes) :
        (passes[k].pc = "copy" /\ (fs' # fs \/ passes' # passes)) =>
            \E p \in {passes[k]} :
            \E dest \in {DestOf(p.allFiles[p.i].relative)} :
                /\ DOMAIN fs.files \subseteq DOMAIN fs'.files
                /\ \A path \in DOMAIN fs'.files \ {dest} :
                      path \in DOMAIN fs.files /\ fs'.files[path] = fs.files[path]
                /\ dest \in DOMAIN fs'.files
                      => fs'.files[dest] \in {fs.files[p.allFiles[p.i].absolute]}
                             \cup {fs.files[d] : d \in {dest} \cap DOMAIN fs.files}
                /\ IF Len(passes') = Len(passes)
                   THEN passes'[k] = [p EXCEPT !.i = p.i + 1]
                   ELSE last'.ncopied \in {p.i - 1, p.i} /\ last'.allFiles = p.allFiles

\* C24: within one pass the patterns are processed in command-line order and
\* the files are copied one after another, so that the files of an earlier
\* pattern are copied before those of a later one; when two matched files go
\* to the same destination path, that path ends up with the content of the
\* one matched by the later pattern
C24_CopiedInPatternOrder ==
    [](InPatternOrder /\ LaterPatternWins) /\ [][OneCopyAtATime]_vars

\* /s/a and /s/d/a both went to outputDir/a, which holds the content of /s/d/a
C24_Witness ==
    /\ hist.run = 1 /\ last.outcome = "ok"
    /\ patterns = << <<"/", "s", "/", "*">>, <<"/", "s", "/", "d", "/", "?">> >>
    /\ fs.files[DestOf(<<"a">>)] = InitFS.files[<<"/", "s", "/", "d", "/", "a">>]
    /\ InitFS.files[<<"/", "s", "/", "a">>] # InitFS.files[<<"/", "s", "/", "d", "/", "a">>]

\* a timeout ran its callback in this step
TimerRan == proc' = "running" /\ Len(timers') = Len(timers) - 1

\* C25: overlapping passes are possible and not prevented: a debounce timer
\* that falls due starts a pass whether or not another pass is in flight,
\* beside the passes in flight, which go on as they were
C25_NothingHoldsBackAPass ==
    [][TimerRan =>
          /\ Len(passes') = Len(passes) + 1
          /\ SubSeq(passes', 1, Len(passes)) = passes
          /\ passes'[Len(passes')].trigger = "watch"
          /\ passes'[Len(passes')].pc = "resolve" /\ passes'[Len(passes')].i = 1]_vars

\* a change that came while a pass started by a change was copying started a
\* second pass: both are in flight, and both have files to write to outputDir
C25_Witness ==
    /\ Len(passes) = 2
    /\ \A k \in 1..2 : passes[k].trigger = "watch" /\ passes[k].pc = "copy"
    /\ hist.changes = 2

\* the base directories of the glob patterns, and those that are there
GlobBases == {GlobBaseSpec(patterns[i]) : i \in {j \in 1..Len(patterns) : hasGlobChars(patterns[j])}}

BasesThere == {B \in GlobBases : Kind(fs, B) = "dir"}

\* setupWatchers runs in this step
SetupRuns == mainPc = "setup" /\ mainPc' # "setup"

\* the directories the log of the next state names in a line
Logged == {hist'.log[i].dir : i \in {j \in 1..Len(hist'.log) : hist'.log[j].dir # <<>>}}

\* setupWatchers goes through all base directories: it watches each one that
\* is there and, when there is one, leaves the process watching
SkipsAndGoesOn ==
    /\ {watchers'[i] : i \in 1..Len(watchers')} = BasesThere
    /\ BasesThere # {} => (proc' = "running" /\ mainPc' = "watching" /\ hist'.active)
    /\ GlobBases # {} => \E i \in 1..Len(hist'.log) : hist'.log[i].line = "Watch mode active"

\* C26 as stated: a base directory that is not there is skipped with a log
\* line, and skipping it does not abort the setup: every base directory that
\* is there is watched and watch mode becomes active
C26_MissingBaseSkippedAndLogged ==
    [][SetupRuns => (SkipsAndGoesOn /\ Logged = GlobBases)]_vars

\* C26, amended: a base directory that is not there is skipped without a log
\* line (the log names the directories watched), and skipping it does not
\* abort the setup
C26_MissingBaseSkipped ==
    [][SetupRuns => (SkipsAndGoesOn /\ Logged = BasesThere)]_vars

\* /m is not there: /s is watched
C26_Witness ==
    /\ mainPc = "watching" /\ hist.active
    /\ patterns = << <<"/", "m", "/", "*">>, <<"/", "s", "/", "*">> >>
    /\ watchers = << <<"/", "s">> >>
    /\ Len(hist.log) = 2

\* the relative path of every match is not empty, not absolute, and has no
\* segment ..
RelativeInside ==
    \A p \in KnownPasses : \A x \in 1..Len(p.allFiles) :
        \E rel \in {p.allFiles[x].relative} :
            /\ rel # <<>> /\ rel[1] # "/"
            /\ \A i \in 1..Len(Split(rel, "/")) : Split(rel, "/")[i] # <<".", ".">>

\* what a step leaves of the tree: nothing is deleted or renamed, and every
\* file written and every directory made lies at or under outputDir, or,
\* where above is TRUE, is a directory above outputDir that was not there
WritesOnlyOutput(above) ==
    /\ DOMAIN fs.files \subseteq DOMAIN fs'.files
    /\ fs.dirs \subseteq fs'.dirs
    /\ fs'.others = fs.others
    /\ \A path \in DOMAIN fs'.files :
          (path \notin DOMAIN fs.files \/ fs'.files[path] # fs.files[path])
              => Under(path, outputDir)
    /\ \A dir \in fs'.dirs \ fs.dirs :
          Under(dir, outputDir) \/ (above /\ Under(outputDir, dir))

\* C27 as stated: every file or directory a pass creates or overwrites lies
\* at or under outputDir; the relative path of every matched file is never
\* absolute and never has a .. segment; no pass deletes or renames anything
C27_WritesUnderOutput == [](RelativeInside) /\ [][WritesOnlyOutput(FALSE)]_vars

\* C27, amended: as above, but a pass also creates the directories above
\* outputDir that are missing
C27_WritesUnderOutputOrParents == [](RelativeInside) /\ [][WritesOnlyOutput(TRUE)]_vars

\* a pass has made /n and /n/o and copied a file there
C27_Witness ==
    /\ outputDir = <<"/", "n", "/", "o">> /\ last.outcome = "ok"
    /\ <<"/", "n">> \in fs.dirs \ InitFS.dirs
    /\ <<"/", "n", "/", "o", "/", "a">> \in DOMAIN fs.files

\* no change was made from outside in this step, and yet a watcher called
\* handleFileChange, which armed the debounce timer
ArmedWithoutChange ==
    /\ hist'.changes = hist.changes
    /\ debounceTimer' = "pending"
    /\ timers' # <<>> /\ timers'[Len(timers')] = DebounceMs
    /\ debounceTimer # "pending" \/ timers = <<>> \/ timers[Len(timers)] < DebounceMs

\* C28: in watch mode the tool becomes quiet once the changes from outside
\* stop: for every choice of patterns and output directory, the copies a pass
\* makes into outputDir do not trigger another pass, so that the debounce
\* timer is armed by changes from outside only
C28_OwnCopiesDoNotTrigger == [][~ArmedWithoutChange]_vars

\* C29: the global error handler sends exactly one reply for every error it
\* receives; its status code is the error's status when the error has one
\* (and the body carries the error's code when it has one); otherwise 400
\* when the error is Fastify's unsupported-media-type or empty-JSON-body
\* error; otherwise 500 with a generic message that carries the request id
\* and not the error's own message
C29_OneReplyPerError ==
    (call.fn = "errorHandler" /\ ret.done) =>
        \E e \in {call.error} :
            /\ ~ret.val.threw
            /\ Len(ret.val.replies) = 1
            /\ \E r \in {ret.val.replies[1]} :
                  IF e.status.set /\ e.status.val # 0
                  THEN r.status = e.status.val /\ r.code = e.code
                  ELSE IF e.fastify /\ e.code \in {"FST_ERR_CTP_INVALID_MEDIA_TYPE",
                                                   "FST_ERR_CTP_EMPTY_JSON_BODY"}
                  THEN r.status = 400
                  ELSE /\ r.status = 500
                       /\ r.message[Len(r.message)] = call.id
                       /\ \A i \in 1..Len(e.message) : ~includes(r.message, e.message[i])

\* page is defined only while the context of a startBrowser that went through
\* is open
PageOnlyWhileOpen ==
    ret.val.this.page # "undefined" => (ret.val.this.context = "open" /\ ret.val.started)

\* a call of op is made in this step
Calls(op) == ret'.val.ops = ret.val.ops + 1 /\ ret'.val.op = op

\* startBrowser throws 'Browser not launched' unless a browser was launched
\* and not terminated since
StartNeedsLaunch ==
    Calls("startBrowser") =>
        (ret'.val.threw = "Browser not launched. Call launchBrowser() first."
            <=> ~ret.val.launched)

\* a page operation with no page of a startBrowser that went through throws
\* 'No browser page available'
NoPageIsReported ==
    (Calls("pageOperation") /\ ~ret.val.started) =>
        ret'.val.threw = "No browser page available"

\* C30: in every reachable state of the Browser wrapper, page is defined only
\* while a context opened by a successful startBrowser is still open:
\* startBrowser throws 'Browser not launched' unless launchBrowser succeeded
\* before and terminateBrowser has not run since, and a page operation
\* invoked before startBrowser, after closeBrowser, after terminateBrowser or
\* after a startBrowser call that failed throws 'No browser page available'
C30_PageOnlyWhileContextOpen ==
    [](call.fn = "Browser" => PageOnlyWhileOpen)
        /\ [][call.fn = "Browser" => (StartNeedsLaunch /\ NoPageIsReported)]_vars
====
